---- MODULE Spec2Model ----
(***************************************************************************)
(* The LDT message processing pipeline of backend/results: the persisted   *)
(* LDTMessage row, the TestResult table it upserts into, the Celery task   *)
(* process_ldt_message_task and the reprocess / retry / bulk_process       *)
(* actions of LDTMessageViewSet.                                           *)
(*                                                                         *)
(* One message row is modelled (messages are independent of each other).   *)
(* Every executor (a Celery worker or a request handler) holds its own     *)
(* in-memory model instance, loaded by a query; Model.save() writes the    *)
(* whole row from that instance.  A task runs inside transaction.atomic    *)
(* with select_for_update: it holds the row lock of the message until it   *)
(* commits, its writes to the message row become visible at commit, and    *)
(* every other writer of the row waits for the lock.                       *)
(***************************************************************************)
EXTENDS Integers, Sequences, FiniteSets, TLC

\* ------------------------------------------------------------------ bounds
NProcs == 2
MaxQueue == 1
\* The clock moves TickDays days at a time, up to MaxDay.
TickDays == 30
MaxDay == 390
\* The audit entries followed.
MaxAudit == 3

Procs == 1 .. NProcs

\* ------------------------------------------------------- program constants
\* LDTMessage.max_retries of the modelled message (the field default is 3)
MsgMaxRetries == 1
\* @shared_task(bind=True, max_retries=3, ...)
TaskMaxRetries == 3

\* max_retries of process_result_workflow_task.
WfTaskMaxRetries == 2

\* max_retries of send_critical_alert_task.
AlertTaskMaxRetries == 3

\* cleanup_old_ldt_messages: timedelta(days=90).
MessageRetentionDays == 90

\* cleanup_old_audit_logs: timedelta(days=365).
AuditRetentionDays == 365

\* LDTMessage.Status
RECEIVED == "RECEIVED"
PROCESSING == "PROCESSING"
PROCESSED == "PROCESSED"
ERROR == "ERROR"
REJECTED == "REJECTED"
PENDING_REVIEW == "PENDING_REVIEW"
Status == {RECEIVED, PROCESSING, PROCESSED, ERROR, REJECTED, PENDING_REVIEW}

\* LDTMessage.MessageType: the two the dispatch distinguishes (the other
\* types dispatch to nothing, as ORDER does).
RESULT == "RESULT"
ORDER == "ORDER"
MessageType == {RESULT, ORDER}

\* The message id of the modelled message, and an id no message has.
MsgId == "M1"
OtherId == "M2"

\* Texts: str(e) of an exception raised in decode or dispatch, and the
\* task's f"Max retries exceeded: {exc}".
NoText == ""
ExcText == "exc"
MaxRetriesText == "Max retries exceeded: exc"

\* --------------------------------------------------------- raw messages
\* A raw message is a sequence of lines; a line is the list of its
\* '|'-separated parts, of which the model keeps part 0 (the segment tag),
\* part 1 (set-id, a string), part 5 (observation value) and part 6 (units).
Seg(tag, setid, value, units) ==
    [tag |-> tag, p1 |-> setid, p5 |-> value, p6 |-> units]

MSH == Seg("MSH", "", "", "")
PID == Seg("PID", "", "", "")

\* Two observation results with distinct set-ids, and two whose set-ids are
\* different strings of the same number (the decoder keeps the multiplicity).
RawDistinct == << MSH, Seg("OBX", "1", "a", "u"), PID, Seg("OBX", "2", "b", "v") >>
RawRepeated == << MSH, Seg("OBX", "1", "a", "u"), Seg("OBX", "01", "b", "v") >>
RawMessages == { RawDistinct, RawRepeated }

\* _parse_obx_segment: the named fields of one OBX line.
ParseObxSegment(segments) ==
    [set_id |-> segments.p1,
     observation_value |-> segments.p5,
     units |-> segments.p6]

\* _parse_ldt_message, the 'obx' entry: the OBX lines in order of appearance
\* (an absent 'obx' key and an empty list both make the dispatch do nothing).
RECURSIVE ParseObxList(_)
ParseObxList(raw) ==
    IF raw = << >> THEN << >>
    ELSE IF Head(raw).tag = "OBX"
         THEN << ParseObxSegment(Head(raw)) >> \o ParseObxList(Tail(raw))
         ELSE ParseObxList(Tail(raw))


\* ------------------------------------------------------------------ state
VARIABLES
    msg,       \* the committed LDTMessage row
    results,   \* the TestResult table: a set of rows
    queue,     \* pending deliveries of process_ldt_message_task, by request.retries
    lock,      \* the executor holding the row lock of the message, 0 if none
    pc,        \* each executor's position
    op,        \* each executor's operation
    inst,      \* each executor's in-memory LDTMessage instance
    idx,       \* each executor's position in the OBX loop
    tr,        \* each executor's in-memory TestResult (the get_or_create result)
    exc,       \* each executor's caught exception text
    retries,   \* each executor's task request.retries
    workflows, \* the ResultWorkflow table, by workflow id
    tres,      \* the TestResult rows that workflows and views work on, by id
    alerts,    \* the critical alerts handed to the notifier by workflows
    wqueue,    \* pending deliveries of process_result_workflow_task, by request.retries
    wlock,     \* the executor holding the row lock of a workflow, 0 if none
    wx,        \* each executor's state inside a workflow operation
    users,     \* the User table, by id
    outbox,    \* the mails accepted by the mail backend, in order
    auditlog,  \* the ResultAuditLog rows written by the alert task
    aqueue,    \* pending deliveries of send_critical_alert_task, by request.retries
    ax,        \* each executor's state inside send_critical_alert_task
    lines,         \* LDT parser: the lines of the content being parsed
    line_num,      \* LDT parser: the number of the last line consumed
    current_patient, \* LDT parser: the patient cursor
    current_order,   \* LDT parser: the order cursor
    parsed_data,     \* LDT parser: the records collected so far
    errors,          \* LDT parser: self.errors of the processor
    content,         \* LDT parser: the content parse_ldt_content was called with
    lpc,             \* LDT parser: the position of the call
    validation_errors, \* LDT parser: what validate_ldt_file returned last
    decoder,         \* a field or line decoder: its argument, position and result
    now,             \* the clock of the housekeeping tasks, in days
    deleted_count,   \* what the housekeeping task that ran last returned
    reopened         \* how many saves have moved the message from ERROR to RECEIVED

pipelineVars ==
    << msg, results, queue, lock, pc, op, inst, idx, tr, exc, retries >>
workflowVars == << workflows, tres, alerts, wqueue, wlock, wx >>
alertVars == << users, outbox, auditlog, aqueue, ax >>
ldtVars ==
    << lines, line_num, current_patient, current_order, parsed_data, errors,
       content, lpc, validation_errors >>
decoderVars == << decoder >>
clockVars == << now, deleted_count >>
historyVars == << reopened >>
besideMessage == << workflowVars, alertVars, ldtVars, decoderVars, clockVars >>
besidePipeline == << besideMessage, historyVars >>
vars ==
    << pipelineVars, workflowVars, alertVars, ldtVars, decoderVars, clockVars,
       historyVars >>

\* ------------------------------------------- ResultWorkflow and TestResult
\* ResultWorkflow.Status.
PENDING == "PENDING"
IN_PROGRESS == "IN_PROGRESS"
COMPLETED == "COMPLETED"
FAILED == "FAILED"
CANCELLED == "CANCELLED"

\* ResultWorkflow.WorkflowType: the two types execute_workflow dispatches
\* on, and one of the types it has no steps for.
AUTO_VALIDATION == "AUTO_VALIDATION"
CRITICAL_VALUE_ALERT == "CRITICAL_VALUE_ALERT"
QC_REVIEW == "QC_REVIEW"
WorkflowType == {AUTO_VALIDATION, CRITICAL_VALUE_ALERT, QC_REVIEW}

\* TestResult.CriticalLevel (the levels the model draws results from).
NORMAL == "NORMAL"
HIGH == "HIGH"
CRITICAL_LOW == "CRITICAL_LOW"
CRITICAL_HIGH == "CRITICAL_HIGH"
PANIC_LOW == "PANIC_LOW"
PANIC_HIGH == "PANIC_HIGH"

\* validation_status of a TestResult.
VPENDING == "PENDING"
VALIDATED == "VALIDATED"
AUTO_VALIDATED == "AUTO_VALIDATED"
REQUIRES_REVIEW == "REQUIRES_REVIEW"

\* A nullable Decimal column: None, or a one-element tuple with the value.
None == << >>
Dec(v) == << v >>

\* Python's truth value of such a column: None and Decimal(0) are false.
Truthy(d) == d # None /\ d[1] # 0

\* The reference range of the test the sample results are measured against.
RangeLow == 1
RangeHigh == 10

TestResultRow(level, numeric, low, high, vstatus) ==
    [critical_level |-> level,
     numeric_value |-> numeric,
     reference_range_low |-> low,
     reference_range_high |-> high,
     validation_status |-> vstatus]

\* TestResult.is_critical.
is_critical(r) ==
    r.critical_level \in {CRITICAL_LOW, CRITICAL_HIGH, PANIC_LOW, PANIC_HIGH}

\* TestResult.is_abnormal: by the reference range when value and both limits
\* are truthy, by the critical level otherwise.
is_abnormal(r) ==
    IF Truthy(r.numeric_value) /\ Truthy(r.reference_range_low)
          /\ Truthy(r.reference_range_high)
    THEN r.numeric_value[1] < r.reference_range_low[1]
            \/ r.numeric_value[1] > r.reference_range_high[1]
    ELSE r.critical_level # NORMAL

\* The results the model works on.
ResultIds == {"R1", "R2", "R3"}
NoTestResult == TestResultRow("", None, None, None, "")

\* Workflow ids: one workflow created outside the trigger, and the ids the
\* trigger builds, f"CRITICAL_{result.id}" and f"VALIDATION_{result.id}".
W0 == << "W", "0" >>
CriticalId(r) == << "CRITICAL", r >>
ValidationId(r) == << "VALIDATION", r >>
WorkflowIds ==
    {W0} \cup { CriticalId(r) : r \in ResultIds }
         \cup { ValidationId(r) : r \in ResultIds }

\* ResultWorkflow.objects.create(workflow_id, workflow_type, status=PENDING)
\* followed by results.add: the field defaults of the model class.
NewWorkflow(type, rs) ==
    [workflow_type |-> type,
     status |-> PENDING,
     results |-> rs,
     started_at |-> FALSE,
     completed_at |-> FALSE,
     error_message |-> NoText]

NoWorkflow == [NewWorkflow("", {}) EXCEPT !.status = ""]

\* An executor outside every workflow operation.
WxIdle == [pc |-> "idle"]

\* The tables are functions from the ids of their rows: no workflow, no
\* result and no workflow task before any result has been entered.
WorkflowsAtRest ==
    /\ workflows = << >>
    /\ tres = << >>
    /\ alerts = << >>
    /\ wqueue = [r \in 0 .. WfTaskMaxRetries |-> 0]
    /\ wlock = 0
    /\ wx = [p \in Procs |-> WxIdle]

\* ------------------------------------------------ send_critical_alert_task
\* User.UserType (the three roles that receive critical alerts and one that
\* does not) and User.Status.
LAB_MANAGER == "LAB_MANAGER"
MEDICAL_TECHNOLOGIST == "MED_TECH"
PATHOLOGIST == "PATHOLOGIST"
CLINICIAN == "CLINICIAN"
ACTIVE == "ACTIVE"
INACTIVE == "INACTIVE"

\* The users of the laboratory, by id.
NUsers == 2
UserIds == 1 .. NUsers
UserRow(type, status) == [user_type |-> type, status |-> status]

\* An executor outside send_critical_alert_task.
AxIdle == [pc |-> "idle"]

\* No user, no mail, no alert task.
AlertsAtRest ==
    /\ users = << >>
    /\ outbox = << >>
    /\ auditlog = << >>
    /\ aqueue = [r \in 0 .. AlertTaskMaxRetries |-> 0]
    /\ ax = [p \in Procs |-> AxIdle]

\* ------------------------------------------------------------ LDTProcessor
\* The parsed_data dictionary parse_ldt_content starts from (lines 64-74).
EmptyParsedData ==
    [patients |-> << >>, orders |-> << >>, results |-> << >>,
     comments |-> << >>]

\* An LDTProcessor that has parsed nothing (__init__, lines 43-48).
LdtAtRest ==
    /\ lines = << >>
    /\ line_num = 0
    /\ current_patient = None
    /\ current_order = None
    /\ parsed_data = EmptyParsedData
    /\ errors = << >>
    /\ content = << >>
    /\ lpc = "ready"
    /\ validation_errors = << >>

\* No decoder has been called.
DecoderAtRest == decoder = [pc |-> "ready"]

\* No housekeeping task has run.
NotSwept == [task |-> "none", count |-> 0]

\* The clock before any day has passed.
ClockAtRest == now = 0 /\ deleted_count = NotSwept

\* No retry has been saved.
HistoryAtRest == reopened = 0

\* A newly created LDTMessage row (the field defaults of the model class;
\* perform_create and ldt_webhook leave status at RECEIVED).
NewMessage(type, raw) ==
    [message_id |-> MsgId,
     message_type |-> type,
     status |-> RECEIVED,
     raw_message |-> raw,
     processed_at |-> FALSE,
     processing_duration |-> FALSE,
     error_message |-> NoText,
     retry_count |-> 0,
     max_retries |-> MsgMaxRetries]

NoInst == [NewMessage(ORDER, << >>) EXCEPT !.message_id = "", !.status = ""]

NoResult == [pk |-> 0]

RECURSIVE SumTo(_, _)
SumTo(q, r) == IF r < 0 THEN 0 ELSE q[r] + SumTo(q, r - 1)
QueueLen == SumTo(queue, TaskMaxRetries)

\* process_ldt_message_task.delay / apply_async with request.retries = r.
Enqueue(q, r) == [q EXCEPT ![r] = @ + 1]

\* The executor has finished its operation and is at rest.
Rest(p) ==
    /\ pc' = [pc EXCEPT ![p] = "idle"]
    /\ op' = [op EXCEPT ![p] = "none"]
    /\ inst' = [inst EXCEPT ![p] = NoInst]
    /\ idx' = [idx EXCEPT ![p] = 0]
    /\ tr' = [tr EXCEPT ![p] = NoResult]
    /\ exc' = [exc EXCEPT ![p] = NoText]
    /\ retries' = [retries EXCEPT ![p] = 0]

\* Model.save() of the message by executor p.  Inside the task's transaction
\* (p holds the row lock) the write stays pending until the commit; elsewhere
\* it is an autocommitted UPDATE of the whole row, which waits while a
\* transaction holds the row lock.
SaveEnabled(p) == lock = 0 \/ lock = p
SavedMessage(p, m) == IF lock = p THEN msg ELSE m

Init ==
    /\ \E type \in MessageType, raw \in RawMessages :
          /\ type # RESULT => raw = RawDistinct
          /\ msg = NewMessage(type, raw)
    /\ results = {}
    /\ queue = [r \in 0 .. TaskMaxRetries |-> IF r = 0 THEN 1 ELSE 0]
    /\ lock = 0
    /\ pc = [p \in Procs |-> "idle"]
    /\ op = [p \in Procs |-> "none"]
    /\ inst = [p \in Procs |-> NoInst]
    /\ idx = [p \in Procs |-> 0]
    /\ tr = [p \in Procs |-> NoResult]
    /\ exc = [p \in Procs |-> NoText]
    /\ retries = [p \in Procs |-> 0]
    /\ WorkflowsAtRest
    /\ AlertsAtRest
    /\ LdtAtRest
    /\ DecoderAtRest
    /\ ClockAtRest
    /\ HistoryAtRest

\* ------------------------------------------------- LDTMessage.process_message
\* status = PROCESSING before the first save.
ProcessingInstance(m) == [m EXCEPT !.status = PROCESSING]

\* A success branch that stamps the times and leaves the status alone.
ProcessedInstanceKeepStatus(m) ==
    [m EXCEPT !.processed_at = TRUE, !.processing_duration = TRUE]

\* A success branch that sets PROCESSED and stamps nothing.
ProcessedInstanceNoStamp(m) == [m EXCEPT !.status = PROCESSED]

\* The success branch: PROCESSED, processed_at and processing_duration stamped.
ProcessedInstance(m) ==
    [m EXCEPT !.status = PROCESSED,
              !.processed_at = TRUE,
              !.processing_duration = TRUE]

\* An except branch that sets ERROR and drops the text of the exception.
ErrorInstanceNoText(m, e) == [m EXCEPT !.status = ERROR]

\* The except branch: ERROR and the text of the exception.
ErrorInstance(m, e) ==
    [m EXCEPT !.status = ERROR, !.error_message = e]

\* The OBX segments the dispatch iterates: parsed_message['obx'] of a RESULT
\* message, which is the decode of the instance's raw content
\* (_process_order_message is a stub; other types dispatch to nothing).
DispatchObx(m) ==
    IF m.message_type = RESULT THEN ParseObxList(m.raw_message) ELSE << >>

\* ldt_obx_sequence is a PositiveIntegerField: the set-id string is
\* converted with int() for the lookup and for the stored column.
ToInt(s) == CASE s = "1" -> 1 [] s = "01" -> 1 [] s = "2" -> 2

\* The rows get_or_create looks up: ldt_message_id and ldt_obx_sequence.
Lookup(rs, mid, set_id) ==
    { r \in rs : r.ldt_message_id = mid /\ r.ldt_obx_sequence = ToInt(set_id) }

\* f"{self.message_id}_{obx.get('set_id')}": the set-id string as it stands.
ResultId(mid, seq) == << mid, seq >>

\* A result table without the unique constraint on result_id.
NoUniqueViolation(rs, rid) == FALSE

\* result_id is unique=True: an INSERT of a second row with the same
\* result_id raises IntegrityError.
UniqueViolation(rs, rid) == \E r \in rs : r.result_id = rid

NextPk(rs) == CHOOSE k \in 1 .. (Cardinality(rs) + 1) : \A r \in rs : r.pk # k

\* The row get_or_create inserts: the lookup fields and the defaults.  (The
\* defaults name no sample, test or patient and a test_order of None, so
\* against the declared NOT NULL columns the INSERT raises; DispatchRaises
\* covers that outcome, and the insert itself is modelled as the call reads.)
CreatedResult(rs, m, obx) ==
    [pk |-> NextPk(rs),
     result_id |-> ResultId(m.message_id, obx.set_id),
     ldt_message_id |-> m.message_id,
     ldt_obx_sequence |-> ToInt(obx.set_id),
     result_value |-> obx.observation_value,
     result_unit |-> obx.units,
     ldt_raw_data |-> obx,
     ldt_parsed_data |-> obx,
     ldt_processing_status |-> "PROCESSED"]

\* An update branch that refreshes the payload and keeps the stored value.
UpdatedResultKeepValue(t, obx) ==
    [t EXCEPT !.ldt_raw_data = obx,
              !.ldt_parsed_data = obx,
              !.ldt_processing_status = "PROCESSED"]

\* The "if not created" branch: the fields assigned before test_result.save().
UpdatedResult(t, obx) ==
    [t EXCEPT !.result_value = obx.observation_value,
              !.ldt_raw_data = obx,
              !.ldt_parsed_data = obx,
              !.ldt_processing_status = "PROCESSED"]

\* test_result.save(): an UPDATE of the whole row of that primary key.
SavedResults(rs, t) == { r \in rs : r.pk # t.pk } \cup { t }

\* Lines 321-323: PROCESSING and the first save().
PMBegin(p) ==
    /\ pc[p] = "pm_start"
    /\ SaveEnabled(p)
    /\ inst' = [inst EXCEPT ![p] = ProcessingInstance(inst[p])]
    /\ msg' = SavedMessage(p, inst'[p])
    /\ pc' = [pc EXCEPT ![p] = "pm_dispatch"]
    /\ idx' = [idx EXCEPT ![p] = 1]
    /\ UNCHANGED << results, queue, lock, op, tr, exc, retries >>
    /\ UNCHANGED besidePipeline

\* The first save() is outside the try block: a database error there leaves
\* process_message by an exception.  The task's transaction rolls back and
\* its except branch runs; reprocess and bulk_process catch it themselves.
PMBeginRaises(p) ==
    /\ pc[p] = "pm_start"
    /\ pc' = [pc EXCEPT ![p] = IF op[p] = "task" THEN "t_exc" ELSE "raised"]
    /\ exc' = [exc EXCEPT ![p] = ExcText]
    /\ inst' = [inst EXCEPT ![p] = NoInst]
    /\ lock' = IF lock = p THEN 0 ELSE lock
    /\ UNCHANGED << msg, results, queue, op, idx, tr, retries >>
    /\ UNCHANGED besidePipeline

\* get_or_create, the get: one row, no row, or MultipleObjectsReturned.
GetOrCreateGet(p) ==
    /\ pc[p] = "pm_dispatch"
    /\ idx[p] <= Len(DispatchObx(inst[p]))
    /\ LET obx == DispatchObx(inst[p])[idx[p]]
           found == Lookup(results, inst[p].message_id, obx.set_id)
       IN  IF found = {}
           THEN /\ pc' = [pc EXCEPT ![p] = "pm_create"]
                /\ UNCHANGED << tr, exc >>
           ELSE IF Cardinality(found) = 1
           THEN /\ pc' = [pc EXCEPT ![p] = "pm_update"]
                /\ tr' = [tr EXCEPT ![p] = CHOOSE r \in found : TRUE]
                /\ UNCHANGED exc
           ELSE /\ pc' = [pc EXCEPT ![p] = "pm_fail"]
                /\ exc' = [exc EXCEPT ![p] = ExcText]
                /\ UNCHANGED tr
    /\ UNCHANGED << msg, results, queue, lock, op, inst, idx, retries >>
    /\ UNCHANGED besidePipeline

\* get_or_create, the create: the INSERT, or on IntegrityError the second get.
GetOrCreateCreate(p) ==
    /\ pc[p] = "pm_create"
    /\ LET obx == DispatchObx(inst[p])[idx[p]]
           found == Lookup(results, inst[p].message_id, obx.set_id)
       IN  IF ~ UniqueViolation(results, ResultId(inst[p].message_id, obx.set_id))
           THEN /\ results' = results \cup { CreatedResult(results, inst[p], obx) }
                /\ pc' = [pc EXCEPT ![p] = "pm_dispatch"]
                /\ idx' = [idx EXCEPT ![p] = @ + 1]
                /\ UNCHANGED << tr, exc >>
           ELSE IF Cardinality(found) = 1
           THEN /\ pc' = [pc EXCEPT ![p] = "pm_update"]
                /\ tr' = [tr EXCEPT ![p] = CHOOSE r \in found : TRUE]
                /\ UNCHANGED << results, idx, exc >>
           ELSE /\ pc' = [pc EXCEPT ![p] = "pm_fail"]
                /\ exc' = [exc EXCEPT ![p] = ExcText]
                /\ UNCHANGED << results, idx, tr >>
    /\ UNCHANGED << msg, queue, lock, op, inst, retries >>
    /\ UNCHANGED besidePipeline

\* The update of an existing result and its save().
UpdateSave(p) ==
    /\ pc[p] = "pm_update"
    /\ LET obx == DispatchObx(inst[p])[idx[p]]
       IN  results' = SavedResults(results, UpdatedResult(tr[p], obx))
    /\ pc' = [pc EXCEPT ![p] = "pm_dispatch"]
    /\ idx' = [idx EXCEPT ![p] = @ + 1]
    /\ tr' = [tr EXCEPT ![p] = NoResult]
    /\ UNCHANGED << msg, queue, lock, op, inst, exc, retries >>
    /\ UNCHANGED besidePipeline

\* Decode or dispatch raises (a malformed set-id, a constraint of the result
\* table, a database error): control passes to the except branch.
DispatchRaises(p) ==
    /\ pc[p] \in {"pm_dispatch", "pm_create", "pm_update"}
    /\ pc' = [pc EXCEPT ![p] = "pm_fail"]
    /\ exc' = [exc EXCEPT ![p] = ExcText]
    /\ tr' = [tr EXCEPT ![p] = NoResult]
    /\ UNCHANGED << msg, results, queue, lock, op, inst, idx, retries >>
    /\ UNCHANGED besidePipeline

\* Lines 336-341: PROCESSED, save(), return True.  The caller logs or
\* answers and is done; the task leaves its atomic block, which commits the
\* row and frees the lock (until then no other executor sees its writes).
PMSuccess(p) ==
    /\ pc[p] = "pm_dispatch"
    /\ idx[p] > Len(DispatchObx(inst[p]))
    /\ SaveEnabled(p)
    /\ msg' = ProcessedInstance(inst[p])
    /\ lock' = IF lock = p THEN 0 ELSE lock
    /\ Rest(p)
    /\ UNCHANGED << results, queue >>
    /\ UNCHANGED besidePipeline

\* Lines 343-347: ERROR, error_message, save(), return False; the caller
\* logs or answers and is done, the task commits.
PMFail(p) ==
    /\ pc[p] = "pm_fail"
    /\ SaveEnabled(p)
    /\ msg' = ErrorInstance(inst[p], exc[p])
    /\ lock' = IF lock = p THEN 0 ELSE lock
    /\ Rest(p)
    /\ UNCHANGED << results, queue >>
    /\ UNCHANGED besidePipeline

\* process_message has raised to reprocess or bulk_process: the view logs
\* the exception and answers with an error.
ViewError(p) ==
    /\ pc[p] = "raised"
    /\ Rest(p)
    /\ UNCHANGED << msg, results, queue, lock >>
    /\ UNCHANGED besidePipeline

\* --------------------------------------------- process_ldt_message_task
\* The task's status check before it processes.
\* A task that runs process_message whatever the status it finds.
MayProcessAnyStatus(m) == TRUE

MayProcess(m) == m.status = RECEIVED

\* self.retry(exc=exc) re-enqueues the task while request.retries is below
\* max_retries, and raises MaxRetriesExceeded after that.
MayRetryTask(r) == r < TaskMaxRetries

\* "Mark message as failed" of the MaxRetriesExceeded branch.
MaxRetriesInstance(m) ==
    [m EXCEPT !.status = ERROR, !.error_message = MaxRetriesText]

\* The broker hands a pending delivery to a worker.
TaskDeliver(p) ==
    /\ pc[p] = "idle"
    /\ \E r \in 0 .. TaskMaxRetries :
          /\ queue[r] > 0
          /\ queue' = [queue EXCEPT ![r] = @ - 1]
          /\ retries' = [retries EXCEPT ![p] = r]
    /\ pc' = [pc EXCEPT ![p] = "t_lock"]
    /\ op' = [op EXCEPT ![p] = "task"]
    /\ UNCHANGED << msg, results, lock, inst, idx, tr, exc >>
    /\ UNCHANGED besidePipeline

\* Lines 30-35: select_for_update().get() waits for the row lock, reads the
\* committed row and checks its status; a message not in RECEIVED ends the
\* task with False (the transaction commits nothing and frees the lock).
TaskLock(p) ==
    /\ pc[p] = "t_lock"
    /\ lock = 0
    /\ IF MayProcess(msg)
       THEN /\ lock' = p
            /\ inst' = [inst EXCEPT ![p] = msg]
            /\ pc' = [pc EXCEPT ![p] = "pm_start"]
            /\ UNCHANGED << op, idx, tr, exc, retries >>
       ELSE /\ Rest(p)
            /\ UNCHANGED lock
    /\ UNCHANGED << msg, results, queue >>
    /\ UNCHANGED besidePipeline

\* Lines 50-55: the except branch retries the task.
TaskRetry(p) ==
    /\ pc[p] = "t_exc"
    /\ MayRetryTask(retries[p])
    /\ queue' = Enqueue(queue, retries[p] + 1)
    /\ Rest(p)
    /\ UNCHANGED << msg, results, lock >>
    /\ UNCHANGED besidePipeline

\* Line 55 past the last retry: Celery's Task.retry, called with exc, raises
\* that exception itself, which "except self.MaxRetriesExceeded" does not
\* catch: the exception leaves the task and the message is not touched.
\* The handler below it runs when retry raises MaxRetriesExceededError; the
\* model admits both outcomes.
TaskRetryReraises(p) ==
    /\ pc[p] = "t_exc"
    /\ ~ MayRetryTask(retries[p])
    /\ Rest(p)
    /\ UNCHANGED << msg, results, queue, lock >>
    /\ UNCHANGED besidePipeline

\* Lines 56-61: MaxRetriesExceeded; the message is read again, unlocked.
TaskMarkGet(p) ==
    /\ pc[p] = "t_exc"
    /\ ~ MayRetryTask(retries[p])
    /\ inst' = [inst EXCEPT ![p] = msg]
    /\ pc' = [pc EXCEPT ![p] = "t_mark"]
    /\ UNCHANGED << msg, results, queue, lock, op, idx, tr, exc, retries >>
    /\ UNCHANGED besidePipeline

\* Lines 62-68: it is saved as ERROR with the terminal note.
TaskMarkSave(p) ==
    /\ pc[p] = "t_mark"
    /\ lock = 0
    /\ msg' = MaxRetriesInstance(inst[p])
    /\ Rest(p)
    /\ UNCHANGED << results, queue, lock >>
    /\ UNCHANGED besidePipeline

\* ------------------------------------------------------ LDTMessageViewSet
\* reprocess: get_object(), then process_message() whatever the status.
Reprocess(p) ==
    /\ pc[p] = "idle"
    /\ inst' = [inst EXCEPT ![p] = msg]
    /\ pc' = [pc EXCEPT ![p] = "pm_start"]
    /\ op' = [op EXCEPT ![p] = "view"]
    /\ UNCHANGED << msg, results, queue, lock, idx, tr, exc, retries >>
    /\ UNCHANGED besidePipeline

\* bulk_process: the messages whose id is among message_ids are fetched and
\* process_message() runs on each in turn, whatever its status; no id, or
\* no match, processes none.
BulkProcess(p) ==
    /\ pc[p] = "idle"
    /\ \E ids \in SUBSET {MsgId, OtherId} :
          IF msg.message_id \in ids
          THEN /\ inst' = [inst EXCEPT ![p] = msg]
               /\ pc' = [pc EXCEPT ![p] = "pm_start"]
               /\ op' = [op EXCEPT ![p] = "view"]
          ELSE UNCHANGED << inst, pc, op >>
    /\ UNCHANGED << msg, results, queue, lock, idx, tr, exc, retries >>
    /\ UNCHANGED besidePipeline

\* A retry check that looks at the status only.
RetryAllowedAnyCount(m) == m.status = ERROR

\* A retry that leaves retry_count as it is.
RetriedInstanceNoCount(m) ==
    [m EXCEPT !.status = RECEIVED, !.error_message = NoText]

\* retry: the two checks of the action.
RetryAllowed(m) == m.status = ERROR /\ m.retry_count < m.max_retries

\* retry: the fields it assigns before save().
RetriedInstance(m) ==
    [m EXCEPT !.retry_count = @ + 1,
              !.status = RECEIVED,
              !.error_message = NoText]

\* retry: get_object().
RetryGet(p) ==
    /\ pc[p] = "idle"
    /\ inst' = [inst EXCEPT ![p] = msg]
    /\ pc' = [pc EXCEPT ![p] = "retry"]
    /\ op' = [op EXCEPT ![p] = "retry"]
    /\ UNCHANGED << msg, results, queue, lock, idx, tr, exc, retries >>
    /\ UNCHANGED besidePipeline

\* retry: rejected with 400, or saved as RECEIVED and one task enqueued.
RetryWrite(p) ==
    /\ pc[p] = "retry"
    /\ IF RetryAllowed(inst[p])
       THEN /\ lock = 0
            /\ QueueLen < MaxQueue
            /\ msg' = RetriedInstance(inst[p])
            /\ queue' = Enqueue(queue, 0)
       ELSE UNCHANGED << msg, queue >>
    /\ Rest(p)
    /\ UNCHANGED << results, lock >>

RetrySave(p) ==
    /\ RetryWrite(p)
    /\ UNCHANGED besidePipeline

\* The external decision on a failed message: ERROR to REJECTED or
\* PENDING_REVIEW, through the generic update of the view set.
ExternalDecision ==
    /\ lock = 0
    /\ msg.status = ERROR
    /\ \E s \in {REJECTED, PENDING_REVIEW} : msg' = [msg EXCEPT !.status = s]
    /\ UNCHANGED << results, queue, lock, pc, op, inst, idx, tr, exc, retries >>
    /\ UNCHANGED besidePipeline

\* ------------------------------------------------------------ the system
Step(p) ==
    \/ TaskDeliver(p)
    \/ TaskLock(p)
    \/ TaskRetry(p)
    \/ TaskRetryReraises(p)
    \/ TaskMarkGet(p)
    \/ TaskMarkSave(p)
    \/ Reprocess(p)
    \/ BulkProcess(p)
    \/ RetryGet(p)
    \/ RetrySave(p)
    \/ PMBegin(p)
    \/ PMBeginRaises(p)
    \/ GetOrCreateGet(p)
    \/ GetOrCreateCreate(p)
    \/ UpdateSave(p)
    \/ DispatchRaises(p)
    \/ PMSuccess(p)
    \/ PMFail(p)
    \/ ViewError(p)

Next ==
    \/ \E p \in Procs : TaskDeliver(p)
    \/ \E p \in Procs : TaskLock(p)
    \/ \E p \in Procs : TaskRetry(p)
    \/ \E p \in Procs : TaskRetryReraises(p)
    \/ \E p \in Procs : TaskMarkGet(p)
    \/ \E p \in Procs : TaskMarkSave(p)
    \/ \E p \in Procs : Reprocess(p)
    \/ \E p \in Procs : BulkProcess(p)
    \/ \E p \in Procs : RetryGet(p)
    \/ \E p \in Procs : RetrySave(p)
    \/ \E p \in Procs : PMBegin(p)
    \/ \E p \in Procs : PMBeginRaises(p)
    \/ \E p \in Procs : GetOrCreateGet(p)
    \/ \E p \in Procs : GetOrCreateCreate(p)
    \/ \E p \in Procs : UpdateSave(p)
    \/ \E p \in Procs : DispatchRaises(p)
    \/ \E p \in Procs : PMSuccess(p)
    \/ \E p \in Procs : PMFail(p)
    \/ \E p \in Procs : ViewError(p)
    \/ ExternalDecision

Spec == Init /\ [][Next]_vars

\* The same system with its operations run one at a time: an executor moves
\* only while every other executor is at rest.
Alone(p) == \A q \in Procs \ {p} : pc[q] = "idle"

SeqNext ==
    \/ \E p \in Procs : Alone(p) /\ Step(p)
    \/ (\A q \in Procs : pc[q] = "idle") /\ ExternalDecision

SeqSpec == Init /\ [][SeqNext]_vars


\* ------------------------------------------- ResultWorkflow.execute_workflow
\* The pipeline with no message in it (the workflow engine and the other
\* components are checked on their own).
PipelineAtRest ==
    /\ msg = NoInst
    /\ results = {}
    /\ queue = [r \in 0 .. TaskMaxRetries |-> 0]
    /\ lock = 0
    /\ pc = [p \in Procs |-> "idle"]
    /\ op = [p \in Procs |-> "none"]
    /\ inst = [p \in Procs |-> NoInst]
    /\ idx = [p \in Procs |-> 0]
    /\ tr = [p \in Procs |-> NoResult]
    /\ exc = [p \in Procs |-> NoText]
    /\ retries = [p \in Procs |-> 0]

\* Lines 552-553: IN_PROGRESS and started_at before the first save.
InProgressInstance(w) == [w EXCEPT !.status = IN_PROGRESS, !.started_at = TRUE]

\* Lines 562-563: COMPLETED and completed_at.
CompletedInstance(w) == [w EXCEPT !.status = COMPLETED, !.completed_at = TRUE]

\* Lines 567-568: FAILED and the text of the exception.
FailedInstance(w, e) == [w EXCEPT !.status = FAILED, !.error_message = e]

\* _execute_auto_validation, the body of its loop: REQUIRES_REVIEW for an
\* abnormal result, AUTO_VALIDATED for every other.
AutoValidated(row) ==
    [row EXCEPT !.validation_status =
        IF is_abnormal(row) THEN REQUIRES_REVIEW ELSE AUTO_VALIDATED]

\* _send_critical_alert(result): its body is "pass", nothing is handed to
\* the notifier.
SendCriticalAlert(sent, r) == sent

\* self.results.all(): the rows of the referenced results as the query
\* returns them, in the order of their ids.
ResultOrder == << "R1", "R2", "R3" >>
ResultsAll(w) ==
    LET ids == SelectSeq(ResultOrder, LAMBDA r : r \in w.results)
    IN  [k \in 1 .. Len(ids) |-> [id |-> ids[k], row |-> tres[ids[k]]]]

\* The steps execute_workflow dispatches to: the loop over the results
\* for the two types it knows, nothing for the other types.
HasSteps(w) == w.workflow_type \in {AUTO_VALIDATION, CRITICAL_VALUE_ALERT}

\* The executor has finished its workflow operation.
WxRest(p) == wx' = [wx EXCEPT ![p] = WxIdle]

\* save() by executor p: inside the task's transaction (p holds the row lock)
\* the write stays pending until the commit, elsewhere it is an autocommitted
\* UPDATE of the whole row, which waits while a transaction holds the lock.
WSaveEnabled(p) == wlock = 0 \/ wlock = p
StoredWorkflows(p, w) ==
    IF wlock = p THEN workflows ELSE [workflows EXCEPT ![wx[p].wid] = w]

\* The result rows after the writes of a committed transaction.
RECURSIVE Committed(_, _)
Committed(rows, writes) ==
    IF writes = << >> THEN rows
    ELSE Committed([rows EXCEPT ![Head(writes).id] = Head(writes).row],
                   Tail(writes))

\* Lines 552-554, and the query of the step that follows.
EWBegin(p) ==
    /\ wx[p].pc = "ew_start"
    /\ WSaveEnabled(p)
    /\ LET w == InProgressInstance(wx[p].inst)
       IN  /\ workflows' = StoredWorkflows(p, w)
           /\ wx' = [wx EXCEPT ![p].pc = "ew_steps",
                               ![p].inst = w,
                               ![p].todo = IF HasSteps(w) THEN ResultsAll(w)
                                           ELSE << >>]
    /\ UNCHANGED << tres, alerts, wqueue, wlock >>
    /\ UNCHANGED << pipelineVars, alertVars, ldtVars, decoderVars, clockVars, historyVars >>

\* The first save() is outside the try block: a database error there leaves
\* execute_workflow by an exception.  The task's transaction rolls back and
\* its except branch runs; the execute action answers 500.
EWBeginRaises(p) ==
    /\ wx[p].pc = "ew_start"
    /\ wx' = [wx EXCEPT ![p].pc = IF wx[p].op = "task" THEN "t_exc"
                                  ELSE "raised",
                        ![p].exc = ExcText,
                        ![p].inst = NoWorkflow]
    /\ wlock' = IF wlock = p THEN 0 ELSE wlock
    /\ UNCHANGED << workflows, tres, alerts, wqueue >>
    /\ UNCHANGED << pipelineVars, alertVars, ldtVars, decoderVars, clockVars, historyVars >>

\* Lines 571-579: one result of the loop is classified and saved.
EWAutoValidation(p) ==
    /\ wx[p].pc = "ew_steps"
    /\ wx[p].inst.workflow_type = AUTO_VALIDATION
    /\ wx[p].todo # << >>
    /\ WSaveEnabled(p)
    /\ LET r == Head(wx[p].todo)
           saved == [id |-> r.id, row |-> AutoValidated(r.row)]
       IN  IF wlock = p
           THEN /\ wx' = [wx EXCEPT ![p].todo = Tail(@),
                                    ![p].writes = Append(@, saved)]
                /\ UNCHANGED tres
           ELSE /\ wx' = [wx EXCEPT ![p].todo = Tail(@)]
                /\ tres' = [tres EXCEPT ![r.id] = saved.row]
    /\ UNCHANGED << workflows, alerts, wqueue, wlock >>
    /\ UNCHANGED << pipelineVars, alertVars, ldtVars, decoderVars, clockVars, historyVars >>

\* Lines 581-586: one result of the loop; a critical one is passed to
\* _send_critical_alert.
EWCriticalAlert(p) ==
    /\ wx[p].pc = "ew_steps"
    /\ wx[p].inst.workflow_type = CRITICAL_VALUE_ALERT
    /\ wx[p].todo # << >>
    /\ LET r == Head(wx[p].todo)
       IN  alerts' = IF is_critical(r.row) THEN SendCriticalAlert(alerts, r.id)
                     ELSE alerts
    /\ wx' = [wx EXCEPT ![p].todo = Tail(@)]
    /\ UNCHANGED << workflows, tres, wqueue, wlock >>
    /\ UNCHANGED << pipelineVars, alertVars, ldtVars, decoderVars, clockVars, historyVars >>

\* A step raises (the query of the results or the save of one): line 565.
EWStepRaises(p) ==
    /\ wx[p].pc = "ew_steps"
    /\ HasSteps(wx[p].inst)
    /\ wx' = [wx EXCEPT ![p].pc = "ew_fail", ![p].exc = ExcText]
    /\ UNCHANGED << workflows, tres, alerts, wqueue, wlock >>
    /\ UNCHANGED << pipelineVars, alertVars, ldtVars, decoderVars, clockVars, historyVars >>

\* execute_workflow returns after saving w: the execute action answers, the
\* task leaves its atomic block, which commits the row and the results it
\* wrote and frees the lock.
EWReturn(p, w) ==
    /\ WSaveEnabled(p)
    /\ workflows' = [workflows EXCEPT ![wx[p].wid] = w]
    /\ tres' = IF wlock = p THEN Committed(tres, wx[p].writes) ELSE tres
    /\ wlock' = IF wlock = p THEN 0 ELSE wlock
    /\ WxRest(p)
    /\ UNCHANGED << alerts, wqueue >>
    /\ UNCHANGED << pipelineVars, alertVars, ldtVars, decoderVars, clockVars, historyVars >>

\* Lines 562-564: all steps done, COMPLETED, completed_at, save().
EWComplete(p) ==
    /\ wx[p].pc = "ew_steps"
    /\ wx[p].todo = << >>
    /\ EWReturn(p, CompletedInstance(wx[p].inst))

\* Lines 566-569: FAILED, error_message, save(); nothing is raised.
EWFail(p) ==
    /\ wx[p].pc = "ew_fail"
    /\ EWReturn(p, FailedInstance(wx[p].inst, wx[p].exc))


\* --------------------------------------------- process_result_workflow_task
\* The executor starts an operation on workflow wid.
WxStart(pcv, opv, wid, w, r) ==
    [pc |-> pcv, op |-> opv, wid |-> wid, inst |-> w, todo |-> << >>,
     exc |-> NoText, retries |-> r, writes |-> << >>]

\* The task executes a workflow only while its status is PENDING (line 151).
MayExecute(w) == w.status = PENDING

\* self.retry(exc=exc) re-enqueues the task while request.retries is below
\* max_retries, and raises after that.
MayRetryWorkflowTask(r) == r < WfTaskMaxRetries

\* "Mark workflow as failed" of the MaxRetriesExceeded branch (lines 176-178).
MaxRetriesWorkflow(w) ==
    [w EXCEPT !.status = FAILED, !.error_message = MaxRetriesText]

\* The broker hands a pending delivery to a worker.
WTaskDeliver(p) ==
    /\ wx[p].pc = "idle"
    /\ \E r \in 0 .. WfTaskMaxRetries :
          /\ wqueue[r] > 0
          /\ wqueue' = [wqueue EXCEPT ![r] = @ - 1]
          /\ wx' = [wx EXCEPT ![p] = WxStart("t_lock", "task", W0, NoWorkflow, r)]
    /\ UNCHANGED << workflows, tres, alerts, wlock >>
    /\ UNCHANGED << pipelineVars, alertVars, ldtVars, decoderVars, clockVars, historyVars >>

\* Lines 148-153: select_for_update().get() waits for the row lock and reads
\* the committed row; a workflow not in PENDING ends the task with False.
WTaskLock(p) ==
    /\ wx[p].pc = "t_lock"
    /\ wlock = 0
    /\ IF MayExecute(workflows[wx[p].wid])
       THEN /\ wlock' = p
            /\ wx' = [wx EXCEPT ![p].pc = "ew_start",
                                ![p].inst = workflows[wx[p].wid]]
       ELSE /\ WxRest(p)
            /\ UNCHANGED wlock
    /\ UNCHANGED << workflows, tres, alerts, wqueue >>
    /\ UNCHANGED << pipelineVars, alertVars, ldtVars, decoderVars, clockVars, historyVars >>

\* Lines 164-169: the except branch retries the task.
WTaskRetry(p) ==
    /\ wx[p].pc = "t_exc"
    /\ MayRetryWorkflowTask(wx[p].retries)
    /\ wqueue' = [wqueue EXCEPT ![wx[p].retries + 1] = @ + 1]
    /\ WxRest(p)
    /\ UNCHANGED << workflows, tres, alerts, wlock >>
    /\ UNCHANGED << pipelineVars, alertVars, ldtVars, decoderVars, clockVars, historyVars >>

\* Line 169 past the last retry: Task.retry, called with exc, raises that
\* exception itself, which "except self.MaxRetriesExceeded" does not catch;
\* the handler below it runs when retry raises MaxRetriesExceededError.  The
\* model admits both outcomes.
WTaskRetryReraises(p) ==
    /\ wx[p].pc = "t_exc"
    /\ ~ MayRetryWorkflowTask(wx[p].retries)
    /\ WxRest(p)
    /\ UNCHANGED << workflows, tres, alerts, wqueue, wlock >>
    /\ UNCHANGED << pipelineVars, alertVars, ldtVars, decoderVars, clockVars, historyVars >>

\* Lines 170-175: MaxRetriesExceeded; the workflow is read again, unlocked.
WTaskMarkGet(p) ==
    /\ wx[p].pc = "t_exc"
    /\ ~ MayRetryWorkflowTask(wx[p].retries)
    /\ wx' = [wx EXCEPT ![p].pc = "t_mark", ![p].inst = workflows[wx[p].wid]]
    /\ UNCHANGED << workflows, tres, alerts, wqueue, wlock >>
    /\ UNCHANGED << pipelineVars, alertVars, ldtVars, decoderVars, clockVars, historyVars >>

\* Lines 176-179: it is saved as FAILED with the terminal note.
WTaskMarkSave(p) ==
    /\ wx[p].pc = "t_mark"
    /\ wlock = 0
    /\ workflows' = [workflows EXCEPT ![wx[p].wid] = MaxRetriesWorkflow(wx[p].inst)]
    /\ WxRest(p)
    /\ UNCHANGED << tres, alerts, wqueue, wlock >>
    /\ UNCHANGED << pipelineVars, alertVars, ldtVars, decoderVars, clockVars, historyVars >>

\* ------------------------------------------------- ResultWorkflowViewSet
\* execute (views.py 478-487): get_object() and the status check; a workflow
\* not in PENDING is answered with 400, a pending one is executed.
ExecuteGet(p) ==
    /\ wx[p].pc = "idle"
    /\ \E wid \in DOMAIN workflows :
          IF workflows[wid].status # PENDING
          THEN UNCHANGED wx
          ELSE wx' = [wx EXCEPT ![p] =
                         WxStart("ew_start", "view", wid, workflows[wid], 0)]
    /\ UNCHANGED << workflows, tres, alerts, wqueue, wlock >>
    /\ UNCHANGED << pipelineVars, alertVars, ldtVars, decoderVars, clockVars, historyVars >>

\* execute (views.py 492-497): execute_workflow has raised, 500.
ExecuteError(p) ==
    /\ wx[p].pc = "raised"
    /\ WxRest(p)
    /\ UNCHANGED << workflows, tres, alerts, wqueue, wlock >>
    /\ UNCHANGED << pipelineVars, alertVars, ldtVars, decoderVars, clockVars, historyVars >>

\* ------------------------------------------------------ TestResultViewSet
\* The results a client enters: critical level, value and validation status
\* as the serializer takes them, measured against one reference range.
EnteredLevels == {NORMAL, HIGH, CRITICAL_HIGH}
EnteredValues == {None, Dec(0), Dec(5), Dec(20)}
EnteredResults(statuses) ==
    { TestResultRow(l, n, Dec(RangeLow), Dec(RangeHigh), v) :
         l \in EnteredLevels, n \in EnteredValues, v \in statuses }

\* _trigger_workflow: the workflow it creates for the result, if any
\* (if is_critical ... elif validation_status == 'PENDING' ...).
TriggeredWorkflow(r, row) ==
    IF is_critical(row)
    THEN { [id |-> CriticalId(r), type |-> CRITICAL_VALUE_ALERT] }
    ELSE IF row.validation_status = VPENDING
    THEN { [id |-> ValidationId(r), type |-> AUTO_VALIDATION] }
    ELSE {}

\* execute_workflow run to its end inside the transaction of perform_create:
\* the workflow row it leaves, the result row and the alerts.
TriggerExecuted(t, r, row, ok) ==
    LET w == InProgressInstance(NewWorkflow(t.type, {r}))
    IN  [workflow |-> IF ok THEN CompletedInstance(w)
                      ELSE FailedInstance(w, ExcText),
         row |-> IF ok /\ t.type = AUTO_VALIDATION THEN AutoValidated(row)
                 ELSE row,
         alerts |-> IF ok /\ t.type = CRITICAL_VALUE_ALERT /\ is_critical(row)
                    THEN SendCriticalAlert(alerts, r) ELSE alerts]

\* perform_create (views.py 70-89): the result is created and
\* _trigger_workflow(result) runs in the same transaction, so the workflow it
\* creates is seen by others only as execute_workflow left it.
PerformCreate(p) ==
    /\ wx[p].pc = "idle"
    /\ \E r \in ResultIds \ DOMAIN tres,
          row \in EnteredResults({VPENDING, VALIDATED}),
          ok \in BOOLEAN :
          LET ts == TriggeredWorkflow(r, row)
          IN  IF ts = {}
              THEN /\ ok
                   /\ tres' = [x \in DOMAIN tres \cup {r} |->
                                  IF x = r THEN row ELSE tres[x]]
                   /\ UNCHANGED << workflows, alerts >>
              ELSE LET t == CHOOSE x \in ts : TRUE
                       e == TriggerExecuted(t, r, row, ok)
                   IN  /\ tres' = [x \in DOMAIN tres \cup {r} |->
                                      IF x = r THEN e.row ELSE tres[x]]
                       /\ workflows' =
                             [x \in DOMAIN workflows \cup {t.id} |->
                                 IF x = t.id THEN e.workflow ELSE workflows[x]]
                       /\ alerts' = e.alerts
    /\ UNCHANGED << wqueue, wlock, wx >>
    /\ UNCHANGED << pipelineVars, alertVars, ldtVars, decoderVars, clockVars, historyVars >>

\* ------------------------------------------------------ the workflow engine
\* One workflow over two results exists in PENDING and its task is queued
\* once.
WfInit ==
    /\ \E type \in WorkflowType,
          r1 \in EnteredResults({VPENDING}),
          r2 \in { TestResultRow(NORMAL, Dec(5), Dec(RangeLow), Dec(RangeHigh),
                                 VPENDING) } :
          /\ workflows = [w \in {W0} |-> NewWorkflow(type, {"R1", "R2"})]
          /\ tres = [r \in {"R1", "R2"} |-> IF r = "R1" THEN r1 ELSE r2]
    /\ alerts = << >>
    /\ wqueue = [r \in 0 .. WfTaskMaxRetries |-> IF r = 0 THEN 1 ELSE 0]
    /\ wlock = 0
    /\ wx = [p \in Procs |-> WxIdle]
    /\ PipelineAtRest
    /\ AlertsAtRest
    /\ LdtAtRest
    /\ DecoderAtRest
    /\ ClockAtRest
    /\ HistoryAtRest

WfNext ==
    \/ \E p \in Procs : WTaskDeliver(p)
    \/ \E p \in Procs : WTaskLock(p)
    \/ \E p \in Procs : EWBegin(p)
    \/ \E p \in Procs : EWBeginRaises(p)
    \/ \E p \in Procs : EWAutoValidation(p)
    \/ \E p \in Procs : EWCriticalAlert(p)
    \/ \E p \in Procs : EWStepRaises(p)
    \/ \E p \in Procs : EWComplete(p)
    \/ \E p \in Procs : EWFail(p)
    \/ \E p \in Procs : WTaskRetry(p)
    \/ \E p \in Procs : WTaskRetryReraises(p)
    \/ \E p \in Procs : WTaskMarkGet(p)
    \/ \E p \in Procs : WTaskMarkSave(p)
    \/ \E p \in Procs : ExecuteGet(p)
    \/ \E p \in Procs : ExecuteError(p)

WfSpec == WfInit /\ [][WfNext]_vars

\* Results are entered one after another and each entry triggers its
\* workflow; the execute action is called on the workflows that exist.
TriggerInit ==
    /\ WorkflowsAtRest
    /\ PipelineAtRest
    /\ AlertsAtRest
    /\ LdtAtRest
    /\ DecoderAtRest
    /\ ClockAtRest
    /\ HistoryAtRest

TriggerNext ==
    \/ \E p \in Procs : PerformCreate(p)
    \/ \E p \in Procs : ExecuteGet(p)

TriggerSpec == TriggerInit /\ [][TriggerNext]_vars


\* ------------------------------------------------ send_critical_alert_task
\* A queryset of users, in the order of their ids.
UserOrder == [k \in 1 .. NUsers |-> k]

\* A filter that takes the users of a role whatever their status.
FilterAnyStatus(type) ==
    SelectSeq(UserOrder, LAMBDA u : users[u].user_type = type)

\* User.objects.filter(user_type=type, status=User.Status.ACTIVE).
Filter(type) ==
    SelectSeq(UserOrder,
              LAMBDA u : users[u].user_type = type /\ users[u].status = ACTIVE)

\* list({user.id: user for user in recipients}.values()): one entry for each
\* id, in the order of the first occurrences.
RECURSIVE Unique(_)
Unique(seq) ==
    IF seq = << >> THEN << >>
    ELSE LET front == Unique(SubSeq(seq, 1, Len(seq) - 1))
             last == seq[Len(seq)]
         IN  IF \E k \in 1 .. Len(front) : front[k] = last
             THEN front ELSE Append(front, last)

\* get_critical_alert_recipients (lines 384-411).
get_critical_alert_recipients ==
    Unique(Filter(LAB_MANAGER) \o Filter(PATHOLOGIST)
              \o Filter(MEDICAL_TECHNOLOGIST))

\* self.retry(exc=exc) re-enqueues the task while request.retries is below
\* max_retries.
MayRetryAlertTask(r) == r < AlertTaskMaxRetries

AxRest(p) == ax' = [ax EXCEPT ![p] = AxIdle]

\* The broker hands a pending delivery to a worker.
ATaskDeliver(p) ==
    /\ ax[p].pc = "idle"
    /\ \E r \in 0 .. AlertTaskMaxRetries :
          /\ aqueue[r] > 0
          /\ aqueue' = [aqueue EXCEPT ![r] = @ - 1]
          /\ ax' = [ax EXCEPT ![p] =
                       [pc |-> "a_get", result_id |-> "R1",
                        alert_users |-> << >>, i |-> 0,
                        alert_sent |-> FALSE, retries |-> r]]
    /\ UNCHANGED << users, outbox, auditlog >>
    /\ UNCHANGED << pipelineVars, workflowVars, ldtVars, decoderVars, clockVars, historyVars >>

\* Lines 82-96: the result is read; a result that is not critical and an
\* empty list of recipients end the task with False.
ATaskGet(p) ==
    /\ ax[p].pc = "a_get"
    /\ IF is_critical(tres[ax[p].result_id])
          /\ get_critical_alert_recipients # << >>
       THEN ax' = [ax EXCEPT ![p].pc = "a_send",
                             ![p].alert_users = get_critical_alert_recipients,
                             ![p].i = 1]
       ELSE AxRest(p)
    /\ UNCHANGED << users, outbox, auditlog, aqueue >>
    /\ UNCHANGED << pipelineVars, workflowVars, ldtVars, decoderVars, clockVars, historyVars >>

\* Lines 83-92 raise (a database error of one of the queries): line 125.
ATaskGetRaises(p) ==
    /\ ax[p].pc = "a_get"
    /\ ax' = [ax EXCEPT ![p].pc = "a_exc"]
    /\ UNCHANGED << users, outbox, auditlog, aqueue >>
    /\ UNCHANGED << pipelineVars, workflowVars, ldtVars, decoderVars, clockVars, historyVars >>

\* Lines 100-105: send_critical_alert_email to one user; send_mail succeeds,
\* or raises (fail_silently=False) and the exception is logged.
ASend(p) ==
    /\ ax[p].pc = "a_send"
    /\ ax[p].i <= Len(ax[p].alert_users)
    /\ \E ok \in BOOLEAN :
          /\ outbox' = Append(outbox, [to |-> ax[p].alert_users[ax[p].i],
                                       result |-> ax[p].result_id,
                                       ok |-> ok,
                                       run |-> ax[p].retries])
          /\ ax' = [ax EXCEPT ![p].i = @ + 1,
                              ![p].alert_sent = @ \/ ok]
    /\ UNCHANGED << users, auditlog, aqueue >>
    /\ UNCHANGED << pipelineVars, workflowVars, ldtVars, decoderVars, clockVars, historyVars >>

\* Lines 107-121: after the loop, the audit entry if a mail went out; the
\* task returns True, or False if every send failed.
ALog(p) ==
    /\ ax[p].pc = "a_send"
    /\ ax[p].i > Len(ax[p].alert_users)
    /\ auditlog' = IF ax[p].alert_sent
                   THEN Append(auditlog, [result |-> ax[p].result_id,
                                          alert_recipients |-> ax[p].alert_users])
                   ELSE auditlog
    /\ AxRest(p)
    /\ UNCHANGED << users, outbox, aqueue >>
    /\ UNCHANGED << pipelineVars, workflowVars, ldtVars, decoderVars, clockVars, historyVars >>

\* ResultAuditLog.objects.create raises: line 125, the mails have gone out.
ALogRaises(p) ==
    /\ ax[p].pc = "a_send"
    /\ ax[p].i > Len(ax[p].alert_users)
    /\ ax[p].alert_sent
    /\ ax' = [ax EXCEPT ![p].pc = "a_exc"]
    /\ UNCHANGED << users, outbox, auditlog, aqueue >>
    /\ UNCHANGED << pipelineVars, workflowVars, ldtVars, decoderVars, clockVars, historyVars >>

\* Lines 128-131: the except branch retries the task.
ATaskRetry(p) ==
    /\ ax[p].pc = "a_exc"
    /\ MayRetryAlertTask(ax[p].retries)
    /\ aqueue' = [aqueue EXCEPT ![ax[p].retries + 1] = @ + 1]
    /\ AxRest(p)
    /\ UNCHANGED << users, outbox, auditlog >>
    /\ UNCHANGED << pipelineVars, workflowVars, ldtVars, decoderVars, clockVars, historyVars >>

\* Lines 131-134 past the last retry: the task ends, by the exception or
\* with False; nothing is written.
ATaskGiveUp(p) ==
    /\ ax[p].pc = "a_exc"
    /\ ~ MayRetryAlertTask(ax[p].retries)
    /\ AxRest(p)
    /\ UNCHANGED << users, outbox, auditlog, aqueue >>
    /\ UNCHANGED << pipelineVars, workflowVars, ldtVars, decoderVars, clockVars, historyVars >>

\* The users of the laboratory: each of one role and active or not.
EnteredUsers ==
    { UserRow(LAB_MANAGER, ACTIVE), UserRow(PATHOLOGIST, ACTIVE),
      UserRow(MEDICAL_TECHNOLOGIST, ACTIVE),
      UserRow(MEDICAL_TECHNOLOGIST, INACTIVE), UserRow(CLINICIAN, ACTIVE) }

\* approve (views.py 186-187) has enqueued the alert task of result R1 once.
AlertInit ==
    /\ users \in [UserIds -> EnteredUsers]
    /\ \E level \in {CRITICAL_HIGH, PANIC_LOW, HIGH} :
          tres = [r \in {"R1"} |->
                     TestResultRow(level, None, None, None, VALIDATED)]
    /\ outbox = << >>
    /\ auditlog = << >>
    /\ aqueue = [r \in 0 .. AlertTaskMaxRetries |-> IF r = 0 THEN 1 ELSE 0]
    /\ ax = [p \in Procs |-> AxIdle]
    /\ workflows = << >>
    /\ alerts = << >>
    /\ wqueue = [r \in 0 .. WfTaskMaxRetries |-> 0]
    /\ wlock = 0
    /\ wx = [p \in Procs |-> WxIdle]
    /\ PipelineAtRest
    /\ LdtAtRest
    /\ DecoderAtRest
    /\ ClockAtRest
    /\ HistoryAtRest

AlertNext ==
    \/ \E p \in Procs : ATaskDeliver(p)
    \/ \E p \in Procs : ATaskGet(p)
    \/ \E p \in Procs : ATaskGetRaises(p)
    \/ \E p \in Procs : ASend(p)
    \/ \E p \in Procs : ALog(p)
    \/ \E p \in Procs : ALogRaises(p)
    \/ \E p \in Procs : ATaskRetry(p)
    \/ \E p \in Procs : ATaskGiveUp(p)

AlertSpec == AlertInit /\ [][AlertNext]_vars


\* ------------------------------------------- LDTProcessor.parse_ldt_content
\* The longest content the model parses, and the number of recorded errors
\* from which the processor is not used for another content.
MaxLines == 4
MaxErrors == 2

\* RECORD_TYPES (lines 32-40), a tag outside it, and the tag of a blank line.
RECORD_TYPES == {"01", "02", "03", "04", "05", "06", "07"}
UnknownTag == "99"
BlankTag == ""
Tags == RECORD_TYPES \cup {UnknownTag, BlankTag}

\* A line: its record type line[:2] and the id field line[2:12].strip(); the
\* id of a line of a content is the number of the line in that content.
\* filled tells whether the text fields after the id hold text or spaces.
Line(tag, k) == [record_type |-> tag, id |-> k, filled |-> TRUE]

\* line[a:b].strip() of a text field after the id, and _parse_date of a date
\* field after it: text, or nothing when the field holds spaces.
Text(l) == IF l.filled THEN "text" ELSE ""
Date(l) == IF l.filled THEN << "date" >> ELSE << >>

\* not line.strip().
IsBlank(l) == l.record_type = BlankTag

\* content.strip().split('\n'): the blank lines at the head and at the end
\* of the content are gone before the lines are numbered.
RECURSIVE Strip(_)
Strip(c) ==
    IF c = << >> THEN << >>
    ELSE IF IsBlank(Head(c)) THEN Strip(Tail(c))
    ELSE IF IsBlank(c[Len(c)]) THEN Strip(SubSeq(c, 1, Len(c) - 1))
    ELSE c

\* The list the loop runs over: the split of an empty string is one empty line.
Split(c) == IF Strip(c) = << >> THEN << Line(BlankTag, 1) >> ELSE Strip(c)

\* The contents the model parses.
Contents ==
    UNION { { [k \in 1 .. n |-> Line(tags[k], k)] : tags \in [1 .. n -> Tags] } :
            n \in 1 .. MaxLines }

\* A cursor or an id that is None, or holds a value.
Some(x) == << x >>

\* A reading of the cursor that never finds a record open.
CursorIdNone(cursor) == None

\* current_patient['id'] if current_patient else None (and the same
\* for current_order).
CursorId(cursor) == IF cursor # None THEN Some(cursor[1].id) ELSE None

\* A patient record that holds the time of the parse in a field.
PatientDataStamped(l) ==
    [id |-> l.id, record_type |-> "01", end_time |-> None,
     last_name |-> Text(l), birth_date |-> << now >>]

\* _parse_patient_record, _parse_order_record, _parse_result_record and
\* _parse_comment_record, with the ids the loop adds to them.
PatientData(l) ==
    [id |-> l.id, record_type |-> "01", end_time |-> None,
     last_name |-> Text(l), birth_date |-> Date(l)]
OrderData(l, cp) ==
    [id |-> l.id, record_type |-> "02", patient_id |-> CursorId(cp),
     end_time |-> None]
ResultData(l, cp, co) ==
    [id |-> l.id, record_type |-> "03", test_code |-> Text(l),
     order_id |-> CursorId(co), patient_id |-> CursorId(cp)]
CommentData(l, cp, co) ==
    [id |-> l.id, record_type |-> "04",
     order_id |-> CursorId(co), patient_id |-> CursorId(cp)]

\* current_order['end_time'] = datetime.now().isoformat() on the record the
\* cursor refers to, which is the one in the list; the key is absent (None)
\* until then.
Ended(list, cursor) ==
    [k \in 1 .. Len(list) |->
        IF list[k].id = cursor[1].id
        THEN [list[k] EXCEPT !.end_time = Some(now)]
        ELSE list[k]]

\* f"Line {line_num}: Unknown record type {record_type}".
LineError(n, tag) == [line |-> n, record_type |-> tag]

\* The line the loop is about to take.
HasLine == lpc = "loop" /\ line_num < Len(lines)
NextLine == lines[line_num + 1]
Takes(tag) == HasLine /\ NextLine.record_type = tag

\* Lines 61-77: a call with the content; self.errors is the list made in
\* __init__, with what earlier calls left in it.
ParseStart ==
    /\ lpc \in {"ready", "returned", "validated"}
    /\ Len(errors) < MaxErrors
    /\ lines' = Split(content)
    /\ line_num' = 0
    /\ current_patient' = None
    /\ current_order' = None
    /\ parsed_data' = EmptyParsedData
    /\ lpc' = "loop"
    /\ UNCHANGED << errors, content >>
    /\ UNCHANGED << validation_errors, pipelineVars, workflowVars, alertVars,
                    decoderVars, clockVars, historyVars >>

\* Lines 80-81: a blank line is passed over.
SkipBlank ==
    /\ Takes(BlankTag)
    /\ line_num' = line_num + 1
    /\ UNCHANGED << lines, current_patient, current_order, parsed_data,
                    errors, content, lpc >>
    /\ UNCHANGED << validation_errors, pipelineVars, workflowVars, alertVars,
                    decoderVars, clockVars, historyVars >>

\* Lines 84-87: a record type outside RECORD_TYPES is recorded as an error.
UnknownRecordType ==
    /\ HasLine
    /\ ~ IsBlank(NextLine)
    /\ NextLine.record_type \notin RECORD_TYPES
    /\ line_num' = line_num + 1
    /\ errors' = Append(errors, LineError(line_num + 1, NextLine.record_type))
    /\ UNCHANGED << lines, current_patient, current_order, parsed_data,
                    content, lpc >>
    /\ UNCHANGED << validation_errors, pipelineVars, workflowVars, alertVars,
                    decoderVars, clockVars, historyVars >>

\* Lines 89-92: '01'.
PatientRecord ==
    /\ Takes("01")
    /\ line_num' = line_num + 1
    /\ current_patient' = Some(PatientData(NextLine))
    /\ parsed_data' = [parsed_data EXCEPT
                          !.patients = Append(@, PatientData(NextLine))]
    /\ UNCHANGED << lines, current_order, errors, content, lpc >>
    /\ UNCHANGED << validation_errors, pipelineVars, workflowVars, alertVars,
                    decoderVars, clockVars, historyVars >>

\* Lines 94-98: '02'.
OrderRecord ==
    /\ Takes("02")
    /\ line_num' = line_num + 1
    /\ current_order' = Some(OrderData(NextLine, current_patient))
    /\ parsed_data' = [parsed_data EXCEPT
                          !.orders = Append(@, OrderData(NextLine, current_patient))]
    /\ UNCHANGED << lines, current_patient, errors, content, lpc >>
    /\ UNCHANGED << validation_errors, pipelineVars, workflowVars, alertVars,
                    decoderVars, clockVars, historyVars >>

\* Lines 100-104: '03'.
ResultRecord ==
    /\ Takes("03")
    /\ line_num' = line_num + 1
    /\ parsed_data' = [parsed_data EXCEPT
                          !.results = Append(@, ResultData(NextLine, current_patient,
                                                           current_order))]
    /\ UNCHANGED << lines, current_patient, current_order, errors, content, lpc >>
    /\ UNCHANGED << validation_errors, pipelineVars, workflowVars, alertVars,
                    decoderVars, clockVars, historyVars >>

\* Lines 106-110: '04'.
CommentRecord ==
    /\ Takes("04")
    /\ line_num' = line_num + 1
    /\ parsed_data' = [parsed_data EXCEPT
                          !.comments = Append(@, CommentData(NextLine, current_patient,
                                                             current_order))]
    /\ UNCHANGED << lines, current_patient, current_order, errors, content, lpc >>
    /\ UNCHANGED << validation_errors, pipelineVars, workflowVars, alertVars,
                    decoderVars, clockVars, historyVars >>

\* Lines 112-115: '05'.
OrderEnd ==
    /\ Takes("05")
    /\ line_num' = line_num + 1
    /\ IF current_order # None
       THEN /\ parsed_data' = [parsed_data EXCEPT
                                  !.orders = Ended(@, current_order)]
            /\ current_order' = None
       ELSE UNCHANGED << parsed_data, current_order >>
    /\ UNCHANGED << lines, current_patient, errors, content, lpc >>
    /\ UNCHANGED << validation_errors, pipelineVars, workflowVars, alertVars,
                    decoderVars, clockVars, historyVars >>

\* Lines 117-120: '06'.
PatientEnd ==
    /\ Takes("06")
    /\ line_num' = line_num + 1
    /\ IF current_patient # None
       THEN /\ parsed_data' = [parsed_data EXCEPT
                                  !.patients = Ended(@, current_patient)]
            /\ current_patient' = None
       ELSE UNCHANGED << parsed_data, current_patient >>
    /\ UNCHANGED << lines, current_order, errors, content, lpc >>
    /\ UNCHANGED << validation_errors, pipelineVars, workflowVars, alertVars,
                    decoderVars, clockVars, historyVars >>

\* '07' is in RECORD_TYPES and has no branch: the line is passed over.
FileEnd ==
    /\ Takes("07")
    /\ line_num' = line_num + 1
    /\ UNCHANGED << lines, current_patient, current_order, parsed_data,
                    errors, content, lpc >>
    /\ UNCHANGED << validation_errors, pipelineVars, workflowVars, alertVars,
                    decoderVars, clockVars, historyVars >>

\* Lines 125-126: parsed_data['errors'] = self.errors; return parsed_data.
ParseReturn ==
    /\ lpc = "loop"
    /\ line_num = Len(lines)
    /\ lpc' = "returned"
    /\ UNCHANGED << lines, line_num, current_patient, current_order,
                    parsed_data, errors, content >>
    /\ UNCHANGED << validation_errors, pipelineVars, workflowVars, alertVars,
                    decoderVars, clockVars, historyVars >>

\* An LDTProcessor after __init__ and the content it is given, at each call.
LdtInit ==
    /\ content \in Contents
    /\ lines = << >>
    /\ line_num = 0
    /\ current_patient = None
    /\ current_order = None
    /\ parsed_data = EmptyParsedData
    /\ errors = << >>
    /\ lpc = "ready"
    /\ validation_errors = << >>
    /\ PipelineAtRest
    /\ WorkflowsAtRest
    /\ AlertsAtRest
    /\ DecoderAtRest
    /\ ClockAtRest
    /\ HistoryAtRest

LdtNext ==
    \/ ParseStart
    \/ SkipBlank
    \/ UnknownRecordType
    \/ PatientRecord
    \/ OrderRecord
    \/ ResultRecord
    \/ CommentRecord
    \/ OrderEnd
    \/ PatientEnd
    \/ FileEnd
    \/ ParseReturn

LdtSpec == LdtInit /\ [][LdtNext]_vars

\* -------------------------------------------- LDTProcessor.validate_ldt_file
\* The lines whose text fields are read by validate_ldt_file: a Patient or a
\* Result line holds text after the id, or spaces.
Unfilled(l) == [l EXCEPT !.filled = FALSE]

FilledContents ==
    { [k \in 1 .. Len(c) |-> IF k \in u THEN Unfilled(c[k]) ELSE c[k]] :
        c \in Contents,
        u \in SUBSET (1 .. MaxLines) }

EnteredContents ==
    { c \in FilledContents :
        \A k \in DOMAIN c : ~ c[k].filled => c[k].record_type \in {"01", "03"} }

\* not x, for a text field, for a date and for an id a cursor gave.
IsEmpty(x) == x = ""
NoDate(x) == x = << >>
NotLinkedNever(x) == FALSE
NotLinked(x) == x = None

\* not record['id']: the id field of a line of the model is never blank.
NoId(x) == x = 0

\* A validation error: what the message says, and the record it names.
ValidationError(kind, id) == [kind |-> kind, id |-> id]

\* Lines 212-218, 221-225 and 228-232: the errors of one record.
PatientErrors(r) ==
    (IF NoId(r.id) THEN << ValidationError("Patient missing ID", r.id) >> ELSE << >>)
    \o (IF IsEmpty(r.last_name)
        THEN << ValidationError("missing last name", r.id) >> ELSE << >>)
    \o (IF NoDate(r.birth_date)
        THEN << ValidationError("missing birth date", r.id) >> ELSE << >>)

OrderErrors(r) ==
    (IF NoId(r.id) THEN << ValidationError("Order missing ID", r.id) >> ELSE << >>)
    \o (IF NotLinked(r.patient_id)
        THEN << ValidationError("not linked to patient", r.id) >> ELSE << >>)

ResultErrors(r) ==
    (IF IsEmpty(r.test_code)
     THEN << ValidationError("missing test code", r.id) >> ELSE << >>)
    \o (IF NotLinked(r.order_id)
        THEN << ValidationError("not linked to order", r.id) >> ELSE << >>)

\* The three loops, each over one list of parsed_data.
RECURSIVE ErrorsOfPatients(_)
ErrorsOfPatients(list) ==
    IF list = << >> THEN << >>
    ELSE PatientErrors(Head(list)) \o ErrorsOfPatients(Tail(list))

RECURSIVE ErrorsOfOrders(_)
ErrorsOfOrders(list) ==
    IF list = << >> THEN << >>
    ELSE OrderErrors(Head(list)) \o ErrorsOfOrders(Tail(list))

RECURSIVE ErrorsOfResults(_)
ErrorsOfResults(list) ==
    IF list = << >> THEN << >>
    ELSE ResultErrors(Head(list)) \o ErrorsOfResults(Tail(list))

\* Lines 202-209: a list of parsed_data that is empty.
NoRecords(list, kind) ==
    IF list = << >> THEN << ValidationError(kind, 0) >> ELSE << >>

\* validate_ldt_file(parsed_data), lines 197-234.
validate_ldt_file(pd) ==
    NoRecords(pd.patients, "No patient records found")
    \o NoRecords(pd.orders, "No order records found")
    \o NoRecords(pd.results, "No result records found")
    \o ErrorsOfPatients(pd.patients)
    \o ErrorsOfOrders(pd.orders)
    \o ErrorsOfResults(pd.results)

\* validate_ldt_file is called with what parse_ldt_content returned.
Validate ==
    /\ lpc = "returned"
    /\ validation_errors' = validate_ldt_file(parsed_data)
    /\ lpc' = "validated"
    /\ UNCHANGED << lines, line_num, current_patient, current_order,
                    parsed_data, errors, content >>
    /\ UNCHANGED << pipelineVars, workflowVars, alertVars, decoderVars, clockVars, historyVars >>

ValidateInit ==
    /\ content \in EnteredContents
    /\ lines = << >>
    /\ line_num = 0
    /\ current_patient = None
    /\ current_order = None
    /\ parsed_data = EmptyParsedData
    /\ errors = << >>
    /\ lpc = "ready"
    /\ validation_errors = << >>
    /\ PipelineAtRest
    /\ WorkflowsAtRest
    /\ AlertsAtRest
    /\ DecoderAtRest
    /\ ClockAtRest
    /\ HistoryAtRest

ValidateNext ==
    \/ LdtNext
    \/ Validate

ValidateSpec == ValidateInit /\ [][ValidateNext]_vars

\* ------------------------------------------------- LDTProcessor._parse_date
\* A string is the sequence of its characters.
DigitChars == << "0", "1", "2", "3", "4", "5", "6", "7", "8", "9" >>
IsDigit(c) == \E n \in 1 .. 10 : DigitChars[n] = c
DigitValue(c) == (CHOOSE n \in 1 .. 10 : DigitChars[n] = c) - 1
AllDigits(s) == \A k \in DOMAIN s : IsDigit(s[k])

\* int(s) of a string of digits.
RECURSIVE IntOf(_)
IntOf(s) ==
    IF s = << >> THEN 0
    ELSE 10 * IntOf(SubSeq(s, 1, Len(s) - 1)) + DigitValue(s[Len(s)])

\* A reading of a field that keeps its spaces.
StrKeep(s) == s

\* str.strip(): the spaces at both ends are removed.
StrStrip(s) ==
    LET text == {k \in DOMAIN s : s[k] # " "}
    IN  IF text = {} THEN << >>
        ELSE SubSeq(s, CHOOSE k \in text : \A j \in text : k <= j,
                       CHOOSE k \in text : \A j \in text : j <= k)

\* The number n in digits, and a string of digits filled up to w with zeros.
RECURSIVE Digits(_)
Digits(n) ==
    IF n < 10 THEN << DigitChars[n + 1] >>
    ELSE Digits(n \div 10) \o << DigitChars[(n % 10) + 1] >>

RECURSIVE ZeroPad(_, _)
ZeroPad(s, w) == IF Len(s) >= w THEN s ELSE ZeroPad(<< "0" >> \o s, w)

\* What strptime raises and _parse_date and _parse_time catch.
ValueError == [raised |-> "ValueError"]

\* The directives %d and %m of strptime match one or two digits: a pair of
\* digits in range (3[0-1]|[1-2]\d|0[1-9], 1[0-2]|0[1-9]) is tried before a
\* single digit [1-9]; %Y matches four digits.
TwoDigits(s, lo, hi) ==
    Len(s) = 2 /\ AllDigits(s) /\ IntOf(s) >= lo /\ IntOf(s) <= hi
OneDigit(s) == Len(s) = 1 /\ AllDigits(s) /\ IntOf(s) >= 1
DirectiveMatches(s, lo, hi) == TwoDigits(s, lo, hi) \/ OneDigit(s)

\* The lengths of the first two directives, in the order the regular
\* expression of the format tries them.
MatchOrder == << << 2, 2 >>, << 2, 1 >>, << 1, 2 >>, << 1, 1 >> >>

DateFits(s, w) ==
    /\ Len(s) >= w[1] + w[2] + 4
    /\ DirectiveMatches(SubSeq(s, 1, w[1]), 1, 31)
    /\ DirectiveMatches(SubSeq(s, w[1] + 1, w[1] + w[2]), 1, 12)
    /\ AllDigits(SubSeq(s, w[1] + w[2] + 1, w[1] + w[2] + 4))

is_leap(y) == y % 4 = 0 /\ (y % 100 # 0 \/ y % 400 = 0)
days_in_month(y, m) ==
    IF m = 2 THEN (IF is_leap(y) THEN 29 ELSE 28)
    ELSE IF m \in {4, 6, 9, 11} THEN 30 ELSE 31

\* datetime.strptime(s, '%d%m%Y'): the first match of the format at the head
\* of s; data left after it, a year 0 and a day the month does not have
\* raise ValueError.
strptime_date(s) ==
    LET fits == {k \in 1 .. 4 : DateFits(s, MatchOrder[k])}
    IN  IF fits = {} THEN ValueError
        ELSE LET w == MatchOrder[CHOOSE k \in fits : \A j \in fits : k <= j]
                 d == IntOf(SubSeq(s, 1, w[1]))
                 m == IntOf(SubSeq(s, w[1] + 1, w[1] + w[2]))
                 y == IntOf(SubSeq(s, w[1] + w[2] + 1, w[1] + w[2] + 4))
             IN  IF Len(s) # w[1] + w[2] + 4 THEN ValueError
                 ELSE IF y < 1 \/ d > days_in_month(y, m) THEN ValueError
                 ELSE [year |-> y, month |-> m, day |-> d]

\* %Y of strftime: the C library writes the year; glibc does not pad a year
\* below 1000 with zeros, other libraries do.
StrfYear(y) == {Digits(y), ZeroPad(Digits(y), 4)}

\* date_obj.strftime('%Y-%m-%d').
strftime_date(t) ==
    { yy \o << "-" >> \o ZeroPad(Digits(t.month), 2) \o << "-" >>
         \o ZeroPad(Digits(t.day), 2) : yy \in StrfYear(t.year) }

DateZeros == << "0", "0", "0", "0", "0", "0", "0", "0" >>

\* _parse_date(date_str), lines 177-185: what it can return.
parse_date(date_str) ==
    IF date_str = << >> \/ StrStrip(date_str) = DateZeros THEN {None}
    ELSE IF strptime_date(StrStrip(date_str)) = ValueError THEN {None}
    ELSE {Some(r) : r \in strftime_date(strptime_date(StrStrip(date_str)))}

\* The date fields the model decodes: a day part, a month part and a year
\* part each of them well or badly formed, the empty field and spaces.
DayParts ==
    { << "0", "0" >>, << "0", "1" >>, << "1" >>, << "1", "0" >>, << "2", "9" >>,
      << "3", "0" >>, << "3", "1" >>, << "3", "2" >>, << " ", "1" >> }
MonthParts ==
    { << "0", "0" >>, << "0", "1" >>, << "0", "2" >>, << "0", "4" >>,
      << "1", "2" >>, << "1", "3" >>, << "1" >> }
YearParts ==
    { << "0", "0", "0", "0" >>, << "0", "9", "8", "0" >>, << "1", "9", "8", "0" >>,
      << "2", "0", "2", "3" >>, << "2", "0", "2", "4" >>, << "1", "9", "8", " " >>,
      << "1", "9", "8", "0", "0" >> }
DateFields ==
    { d \o m \o y : d \in DayParts, m \in MonthParts, y \in YearParts }
    \cup { << >>, << " ", " ", " ", " ", " ", " ", " ", " " >> }

\* A call of _parse_date and its return.
Called(fn, arg) == [pc |-> "called", fn |-> fn, arg |-> arg]
Returned(d, out) == [pc |-> "returned", fn |-> d.fn, arg |-> d.arg, out |-> out]
IsCalled(fn) == decoder.pc = "called" /\ decoder.fn = fn
HasReturned(fn) == decoder.pc = "returned" /\ decoder.fn = fn

ParseDate ==
    /\ IsCalled("_parse_date")
    /\ \E out \in parse_date(decoder.arg) : decoder' = Returned(decoder, out)
    /\ UNCHANGED << pipelineVars, workflowVars, alertVars, ldtVars, clockVars, historyVars >>

DateInit ==
    /\ decoder \in {Called("_parse_date", f) : f \in DateFields}
    /\ PipelineAtRest
    /\ WorkflowsAtRest
    /\ AlertsAtRest
    /\ LdtAtRest
    /\ ClockAtRest
    /\ HistoryAtRest

DateNext == ParseDate

DateSpec == DateInit /\ [][DateNext]_vars

\* ------------------------------------------------- LDTProcessor._parse_time
\* %H, %M and %S of strptime: a pair of digits in range (2[0-3]|[0-1]\d,
\* [0-5]\d, 6[0-1]|[0-5]\d) is tried before a single digit \d.
ClockMatches(s, hi) ==
    \/ TwoDigits(s, 0, hi)
    \/ Len(s) = 1 /\ AllDigits(s)

\* The lengths of the three directives, in the order the regular expression
\* of the format tries them.
ClockOrder ==
    << << 2, 2, 2 >>, << 2, 2, 1 >>, << 2, 1, 2 >>, << 2, 1, 1 >>,
       << 1, 2, 2 >>, << 1, 2, 1 >>, << 1, 1, 2 >>, << 1, 1, 1 >> >>

TimeFits(s, w) ==
    /\ Len(s) >= w[1] + w[2] + w[3]
    /\ ClockMatches(SubSeq(s, 1, w[1]), 23)
    /\ ClockMatches(SubSeq(s, w[1] + 1, w[1] + w[2]), 59)
    /\ ClockMatches(SubSeq(s, w[1] + w[2] + 1, w[1] + w[2] + w[3]), 61)

\* datetime.strptime(s, '%H%M%S'): the first match of the format at the head
\* of s; data left after it and a second above 59 raise ValueError.
strptime_time(s) ==
    LET fits == {k \in 1 .. 8 : TimeFits(s, ClockOrder[k])}
    IN  IF fits = {} THEN ValueError
        ELSE LET w == ClockOrder[CHOOSE k \in fits : \A j \in fits : k <= j]
                 h == IntOf(SubSeq(s, 1, w[1]))
                 m == IntOf(SubSeq(s, w[1] + 1, w[1] + w[2]))
                 sec == IntOf(SubSeq(s, w[1] + w[2] + 1, w[1] + w[2] + w[3]))
             IN  IF Len(s) # w[1] + w[2] + w[3] THEN ValueError
                 ELSE IF sec > 59 THEN ValueError
                 ELSE [hour |-> h, minute |-> m, second |-> sec]

\* time_obj.strftime('%H:%M:%S').
strftime_time(t) ==
    ZeroPad(Digits(t.hour), 2) \o << ":" >> \o ZeroPad(Digits(t.minute), 2)
        \o << ":" >> \o ZeroPad(Digits(t.second), 2)

TimeZeros == << "0", "0", "0", "0", "0", "0" >>

\* _parse_time(time_str), lines 187-195.
parse_time(time_str) ==
    IF time_str = << >> \/ StrStrip(time_str) = TimeZeros THEN None
    ELSE IF strptime_time(StrStrip(time_str)) = ValueError THEN None
    ELSE Some(strftime_time(strptime_time(StrStrip(time_str))))

\* The time fields the model decodes.
HourParts ==
    { << "0", "0" >>, << "1", "2" >>, << "2", "3" >>, << "2", "4" >>, << "1" >>,
      << " ", "1" >> }
MinuteParts ==
    { << "0", "0" >>, << "3", "0" >>, << "5", "9" >>, << "6", "0" >>, << "5" >> }
SecondParts ==
    { << "0", "0" >>, << "0", "1" >>, << "5", "9" >>, << "6", "0" >>,
      << "6", "1" >>, << "5" >>, << "0", " " >> }
TimeFields ==
    { h \o m \o sec : h \in HourParts, m \in MinuteParts, sec \in SecondParts }
    \cup { << >>, << " ", " ", " ", " ", " ", " " >> }

ParseTime ==
    /\ IsCalled("_parse_time")
    /\ decoder' = Returned(decoder, parse_time(decoder.arg))
    /\ UNCHANGED << pipelineVars, workflowVars, alertVars, ldtVars, clockVars, historyVars >>

TimeInit ==
    /\ decoder \in {Called("_parse_time", f) : f \in TimeFields}
    /\ PipelineAtRest
    /\ WorkflowsAtRest
    /\ AlertsAtRest
    /\ LdtAtRest
    /\ ClockAtRest
    /\ HistoryAtRest

TimeNext == ParseTime

TimeSpec == TimeInit /\ [][TimeNext]_vars

\* ------------------------------------- LDTProcessor._parse_..._record
\* line[a:b]: the characters a+1 to b of the line, as many as it has.
Slice(line, a, b) == SubSeq(line, a + 1, IF b < Len(line) THEN b ELSE Len(line))

\* _parse_patient_record(line), lines 128-139: what it can return.
parse_patient_record(line) ==
    { [id |-> StrStrip(Slice(line, 2, 12)),
       last_name |-> StrStrip(Slice(line, 12, 42)),
       first_name |-> StrStrip(Slice(line, 42, 62)),
       birth_date |-> d,
       gender |-> Slice(line, 70, 71),
       insurance_number |-> StrStrip(Slice(line, 71, 81)),
       insurance_type |-> Slice(line, 81, 82),
       record_type |-> "01"] : d \in parse_date(Slice(line, 62, 70)) }

\* _parse_order_record(line), lines 141-150.
parse_order_record(line) ==
    { [id |-> StrStrip(Slice(line, 2, 12)),
       order_date |-> d,
       order_time |-> parse_time(Slice(line, 20, 26)),
       ordering_physician |-> StrStrip(Slice(line, 26, 66)),
       laboratory |-> StrStrip(Slice(line, 66, 106)),
       record_type |-> "02"] : d \in parse_date(Slice(line, 12, 20)) }

\* _parse_result_record(line), lines 152-165.
parse_result_record(line) ==
    { [id |-> StrStrip(Slice(line, 2, 12)),
       test_code |-> StrStrip(Slice(line, 12, 22)),
       test_name |-> StrStrip(Slice(line, 22, 82)),
       result_value |-> StrStrip(Slice(line, 82, 122)),
       unit |-> StrStrip(Slice(line, 122, 132)),
       reference_range |-> StrStrip(Slice(line, 132, 172)),
       abnormal_flag |-> Slice(line, 172, 173),
       result_date |-> d,
       result_time |-> parse_time(Slice(line, 181, 187)),
       record_type |-> "03"] : d \in parse_date(Slice(line, 173, 181)) }

\* _parse_comment_record(line), lines 167-175.
parse_comment_record(line) ==
    { [id |-> StrStrip(Slice(line, 2, 12)),
       comment_text |-> StrStrip(Slice(line, 12, 172)),
       comment_date |-> d,
       comment_time |-> parse_time(Slice(line, 180, 186)),
       record_type |-> "04"] : d \in parse_date(Slice(line, 172, 180)) }

\* The lines the model decodes are put together from fields, each written
\* into its columns and filled up with spaces.
Spaces(n) == [k \in 1 .. n |-> " "]
Column(s, w) == s \o Spaces(w - Len(s))

PATIENT001 == << "P", "A", "T", "I", "E", "N", "T", "0", "0", "1" >>
DOE == << "D", "O", "E" >>
JOHN == << "J", "O", "H", "N" >>
Date19800101 == << "0", "1", "0", "1", "1", "9", "8", "0" >>
Time120000 == << "1", "2", "0", "0", "0", "0" >>
GLU == << "G", "L", "U" >>

\* The line of the specification's example: the names are not in the
\* columns 12-42 and 42-62.
ExampleLine ==
    << "0", "1" >> \o PATIENT001 \o Spaces(2) \o DOE \o Spaces(26) \o JOHN
       \o Spaces(26) \o Date19800101 \o << "M" >>
       \o << "1", "2", "3", "4", "5", "6", "7", "8", "9", "0", "1", "1", "1" >>

\* The same patient written into the columns of _parse_patient_record.
AlignedLine ==
    << "0", "1" >> \o PATIENT001 \o Column(DOE, 30) \o Column(JOHN, 20)
       \o Date19800101 \o << "M" >> \o Column(<< "1", "2", "3" >>, 10) \o << "1" >>

IdTexts == { PATIENT001, << " ", "P", "1" >>, << >> }
NameTexts == { DOE, << " ", "D", "O", "E" >>, << >> }
DateTexts == { Date19800101, DateZeros, Spaces(8) }
TimeTexts == { Time120000, Spaces(6) }
FlagTexts == { << "M" >>, << " " >> }

PatientLines ==
    { << "0", "1" >> \o Column(i, 10) \o Column(l, 30) \o Column(f, 20) \o d \o g
         \o Column(<< "1", "2", "3" >>, 10) \o t :
        i \in IdTexts, l \in NameTexts, f \in { JOHN, << >> }, d \in DateTexts,
        g \in FlagTexts, t \in FlagTexts }
    \cup { ExampleLine, AlignedLine, << "0", "1" >> \o PATIENT001 }

OrderLines ==
    { << "0", "2" >> \o Column(i, 10) \o d \o t \o Column(n, 40) \o Column(n, 40) :
        i \in IdTexts, d \in DateTexts, t \in TimeTexts, n \in NameTexts }

ResultLines ==
    { << "0", "3" >> \o Column(i, 10) \o Column(c, 10) \o Column(GLU, 60)
         \o Column(<< "5" >>, 40) \o Column(n, 10) \o Column(<< "1" >>, 40) \o g
         \o d \o Time120000 :
        i \in IdTexts, c \in { GLU, << >> }, n \in NameTexts, g \in FlagTexts,
        d \in DateTexts }

CommentLines ==
    { << "0", "4" >> \o Column(i, 10) \o Column(n, 160) \o d \o t :
        i \in IdTexts, n \in NameTexts, d \in DateTexts, t \in TimeTexts }

ParsePatientRecord ==
    /\ IsCalled("_parse_patient_record")
    /\ \E out \in parse_patient_record(decoder.arg) :
          decoder' = Returned(decoder, out)
    /\ UNCHANGED << pipelineVars, workflowVars, alertVars, ldtVars, clockVars, historyVars >>

ParseOrderRecord ==
    /\ IsCalled("_parse_order_record")
    /\ \E out \in parse_order_record(decoder.arg) :
          decoder' = Returned(decoder, out)
    /\ UNCHANGED << pipelineVars, workflowVars, alertVars, ldtVars, clockVars, historyVars >>

ParseResultRecord ==
    /\ IsCalled("_parse_result_record")
    /\ \E out \in parse_result_record(decoder.arg) :
          decoder' = Returned(decoder, out)
    /\ UNCHANGED << pipelineVars, workflowVars, alertVars, ldtVars, clockVars, historyVars >>

ParseCommentRecord ==
    /\ IsCalled("_parse_comment_record")
    /\ \E out \in parse_comment_record(decoder.arg) :
          decoder' = Returned(decoder, out)
    /\ UNCHANGED << pipelineVars, workflowVars, alertVars, ldtVars, clockVars, historyVars >>

RecordInit ==
    /\ decoder \in
          {Called("_parse_patient_record", l) : l \in PatientLines}
          \cup {Called("_parse_order_record", l) : l \in OrderLines}
          \cup {Called("_parse_result_record", l) : l \in ResultLines}
          \cup {Called("_parse_comment_record", l) : l \in CommentLines}
    /\ PipelineAtRest
    /\ WorkflowsAtRest
    /\ AlertsAtRest
    /\ LdtAtRest
    /\ ClockAtRest
    /\ HistoryAtRest

RecordNext ==
    \/ ParsePatientRecord
    \/ ParseOrderRecord
    \/ ParseResultRecord
    \/ ParseCommentRecord

RecordSpec == RecordInit /\ [][RecordNext]_vars

\* ------------------------------------------ LDTMessage._parse_obx_segment
\* s.split(sep) for a separator of one character: the parts between the
\* separators, one more than there are separators.
Separators(s, sep) == {k \in DOMAIN s : s[k] = sep}
SeparatorAt(s, sep, j) ==
    IF j = 0 THEN 0
    ELSE IF j > Cardinality(Separators(s, sep)) THEN Len(s) + 1
    ELSE CHOOSE k \in Separators(s, sep) :
            Cardinality({i \in Separators(s, sep) : i < k}) = j - 1
SplitOn(s, sep) ==
    [j \in 1 .. (Cardinality(Separators(s, sep)) + 1) |->
        SubSeq(s, SeparatorAt(s, sep, j - 1) + 1, SeparatorAt(s, sep, j) - 1)]

\* A reading of the parts that counts them from one.
PartFromOne(segments, n) == IF Len(segments) >= n THEN segments[n] ELSE << >>

\* segments[n] if len(segments) > n else ''.
Part(segments, n) == IF Len(segments) > n THEN segments[n + 1] ELSE << >>

\* _parse_obx_segment(segments), lines 419-438.
parse_obx_segment(segments) ==
    [set_id |-> Part(segments, 1),
     value_type |-> Part(segments, 2),
     observation_id |-> Part(segments, 3),
     sub_id |-> Part(segments, 4),
     observation_value |-> Part(segments, 5),
     units |-> Part(segments, 6),
     reference_range |-> Part(segments, 7),
     abnormal_flags |-> Part(segments, 8),
     probability |-> Part(segments, 9),
     nature_of_abnormal_test |-> Part(segments, 10),
     observation_result_status |-> Part(segments, 11),
     effective_date_of_reference_range |-> Part(segments, 12),
     user_defined_access_checks |-> Part(segments, 13),
     observation_datetime |-> Part(segments, 14),
     producer_id |-> Part(segments, 15),
     responsible_observer |-> Part(segments, 16)]

\* The OBX line of the specification's example, a line with a part at every
\* position, and what is left of each of them when it is cut short.
ExampleObx == << "O", "B", "X", "|", "1", "|", "N", "M", "|", "G", "L", "U", "^", "G", "L", "U", "|", "1", "|", "1", "2", "0", "|", "m", "g", "/", "d", "L", "|", "7", "0", "-", "1", "1", "0", "|", "H", "|", "F", "|", "|", "|", "2", "0", "2", "3", "1", "2", "0", "1", "1", "2", "0", "0", "0", "0" >>
FullObx == << "O", "B", "X", "|", "a", "|", "b", "|", "c", "|", "d", "|", "e", "|", "f", "|", "g", "|", "h", "|", "i", "|", "j", "|", "k", "|", "l", "|", "m", "|", "n", "|", "o", "|", "p", "|", "q" >>
ObxLines ==
    { SubSeq(l, 1, n) : l \in {ExampleObx}, n \in 0 .. Len(ExampleObx) }
    \cup { SubSeq(FullObx, 1, n) : n \in 0 .. Len(FullObx) }

\* _parse_ldt_message hands line.split('|') to _parse_obx_segment (358, 372).
ParseObx ==
    /\ IsCalled("_parse_obx_segment")
    /\ decoder' = Returned(decoder, parse_obx_segment(SplitOn(decoder.arg, "|")))
    /\ UNCHANGED << pipelineVars, workflowVars, alertVars, ldtVars, clockVars, historyVars >>

\* ------------------------------------- LDTMessage._extract_message_structure
\* sub in s.
Contains(s, sub) ==
    \E k \in 1 .. (Len(s) - Len(sub) + 1) : SubSeq(s, k, k + Len(sub) - 1) = sub

\* line.split('|')[0] for line in raw_message.split('\n') if line.strip().
SegmentTypes(raw) ==
    LET ls == SplitOn(raw, "\n")
    IN  { SplitOn(ls[k], "|")[1] : k \in {j \in DOMAIN ls : StrStrip(ls[j]) # << >>} }

\* _extract_message_structure(), lines 440-449.
extract_message_structure(raw) ==
    [total_segments |-> Len(SplitOn(raw, "\n")),
     segment_types |-> SegmentTypes(raw),
     message_size |-> Len(raw),
     has_patient_data |-> Contains(raw, << "P", "I", "D" >>),
     has_order_data |-> Contains(raw, << "O", "R", "C" >>),
     has_result_data |-> Contains(raw, << "O", "B", "X" >>)]

\* The raw messages the model takes: up to MaxSegments lines, joined by
\* newlines, with or without a newline at the end.
MaxSegments == 3
SegmentLines ==
    { << "M", "S", "H", "|", "x" >>, << "P", "I", "D", "|", "1" >>, << "O", "R", "C", "|", "1" >>, << "O", "B", "X", "|", "1", "|", "N", "M" >>, << "O", "B", "X", "|", "1", "|", "P", "I", "D" >>, << "O", "B", "R", "|", "O", "R", "C" >>, << >> }

RECURSIVE Join(_)
Join(ls) ==
    IF Len(ls) = 1 THEN ls[1] ELSE ls[1] \o << "\n" >> \o Join(Tail(ls))

EnteredRaw ==
    UNION { { Join(ls) : ls \in [1 .. n -> SegmentLines] } : n \in 1 .. MaxSegments }

ExtractMessageStructure ==
    /\ IsCalled("_extract_message_structure")
    /\ decoder' = Returned(decoder, extract_message_structure(decoder.arg))
    /\ UNCHANGED << pipelineVars, workflowVars, alertVars, ldtVars, clockVars, historyVars >>

SegmentInit ==
    /\ decoder \in
          {Called("_parse_obx_segment", l) : l \in ObxLines}
          \cup {Called("_extract_message_structure", r) : r \in EnteredRaw}
    /\ PipelineAtRest
    /\ WorkflowsAtRest
    /\ AlertsAtRest
    /\ LdtAtRest
    /\ ClockAtRest
    /\ HistoryAtRest

SegmentNext ==
    \/ ParseObx
    \/ ExtractMessageStructure

SegmentSpec == SegmentInit /\ [][SegmentNext]_vars

\* At-least-once delivery: the broker holds the task of the message more than
\* once (a redelivery after a lost acknowledgement, or the same task handed
\* to several workers).
Deliveries == 2

DupInit ==
    /\ msg = NewMessage(RESULT, RawDistinct)
    /\ results = {}
    /\ queue = [r \in 0 .. TaskMaxRetries |-> IF r = 0 THEN Deliveries ELSE 0]
    /\ lock = 0
    /\ pc = [p \in Procs |-> "idle"]
    /\ op = [p \in Procs |-> "none"]
    /\ inst = [p \in Procs |-> NoInst]
    /\ idx = [p \in Procs |-> 0]
    /\ tr = [p \in Procs |-> NoResult]
    /\ exc = [p \in Procs |-> NoText]
    /\ retries = [p \in Procs |-> 0]
    /\ WorkflowsAtRest
    /\ AlertsAtRest
    /\ LdtAtRest
    /\ DecoderAtRest
    /\ ClockAtRest
    /\ HistoryAtRest

DupSpec == DupInit /\ [][Next]_vars

\* ------------------------------------------------------ ldt_webhook, create
\* No request is creating a message and none is stored: the model holds one
\* message row, so a single ingestion is followed at a time.
NoneIngested ==
    /\ msg = NoInst
    /\ QueueLen = 0
    /\ \A q \in Procs : pc[q] = "idle"

\* ldt_webhook, lines 562-568: LDTMessage.objects.create stores the RESULT
\* message in RECEIVED; outside a transaction the INSERT is committed at once.
WebhookCreate(p) ==
    /\ NoneIngested
    /\ \E raw \in RawMessages :
          /\ msg' = NewMessage(RESULT, raw)
          /\ inst' = [inst EXCEPT ![p] = NewMessage(RESULT, raw)]
    /\ pc' = [pc EXCEPT ![p] = "wh_delay"]
    /\ op' = [op EXCEPT ![p] = "webhook"]
    /\ UNCHANGED << results, queue, lock, idx, tr, exc, retries >>
    /\ UNCHANGED besidePipeline

\* Lines 571-577: process_ldt_message_task.delay(message.id), then the
\* response with the message id.
WebhookDelay(p) ==
    /\ pc[p] = "wh_delay"
    /\ queue' = Enqueue(queue, 0)
    /\ Rest(p)
    /\ UNCHANGED << msg, results, lock >>
    /\ UNCHANGED besidePipeline

\* Lines 579-584: delay raises (the broker is not reachable); the view answers
\* 500 and the message it created stays.
WebhookDelayRaises(p) ==
    /\ pc[p] = "wh_delay"
    /\ Rest(p)
    /\ UNCHANGED << msg, results, queue, lock >>
    /\ UNCHANGED besidePipeline

\* LDTMessageViewSet.perform_create, lines 353-354: serializer.save inside
\* transaction.atomic(); the INSERT is pending until the block is left.
CreateSave(p) ==
    /\ NoneIngested
    /\ \E type \in MessageType, raw \in RawMessages :
          /\ type # RESULT => raw = RawDistinct
          /\ inst' = [inst EXCEPT ![p] = NewMessage(type, raw)]
    /\ pc' = [pc EXCEPT ![p] = "pc_delay"]
    /\ op' = [op EXCEPT ![p] = "create"]
    /\ UNCHANGED << msg, results, queue, lock, idx, tr, exc, retries >>
    /\ UNCHANGED besidePipeline

\* Line 357: process_ldt_message_task.delay(message.id), still inside the
\* atomic block: the broker has the task before the row is committed.
CreateDelay(p) ==
    /\ pc[p] = "pc_delay"
    /\ queue' = Enqueue(queue, 0)
    /\ pc' = [pc EXCEPT ![p] = "pc_commit"]
    /\ UNCHANGED << msg, results, lock, op, inst, idx, tr, exc, retries >>
    /\ UNCHANGED besidePipeline

\* Line 357 raises: the atomic block rolls the INSERT back.
CreateDelayRaises(p) ==
    /\ pc[p] = "pc_delay"
    /\ Rest(p)
    /\ UNCHANGED << msg, results, queue, lock >>
    /\ UNCHANGED besidePipeline

\* The atomic block of perform_create is left: the row is committed.
CreateCommit(p) ==
    /\ pc[p] = "pc_commit"
    /\ msg' = inst[p]
    /\ Rest(p)
    /\ UNCHANGED << results, queue, lock >>
    /\ UNCHANGED besidePipeline

\* process_ldt_message_task, lines 30-31 on a stored row.
TaskFound(p) == msg # NoInst /\ TaskLock(p)

\* Lines 47-49: select_for_update().get() finds no committed row with the id;
\* LDTMessage.DoesNotExist is caught and the task returns False.
TaskNotFound(p) ==
    /\ pc[p] = "t_lock"
    /\ msg = NoInst
    /\ Rest(p)
    /\ UNCHANGED << msg, results, queue, lock >>
    /\ UNCHANGED besidePipeline

\* The steps of a request or of a task that has begun.
IngestRun(p) ==
    \/ WebhookDelay(p)
    \/ WebhookDelayRaises(p)
    \/ CreateDelay(p)
    \/ CreateDelayRaises(p)
    \/ CreateCommit(p)
    \/ TaskDeliver(p)
    \/ TaskFound(p)
    \/ TaskNotFound(p)
    \/ TaskRetry(p)
    \/ TaskRetryReraises(p)
    \/ TaskMarkGet(p)
    \/ TaskMarkSave(p)
    \/ PMBegin(p)
    \/ PMBeginRaises(p)
    \/ GetOrCreateGet(p)
    \/ GetOrCreateCreate(p)
    \/ UpdateSave(p)
    \/ DispatchRaises(p)
    \/ PMSuccess(p)
    \/ PMFail(p)

IngestInit ==
    /\ PipelineAtRest
    /\ WorkflowsAtRest
    /\ AlertsAtRest
    /\ LdtAtRest
    /\ DecoderAtRest
    /\ ClockAtRest
    /\ HistoryAtRest

IngestNext ==
    \/ \E p \in Procs : WebhookCreate(p)
    \/ \E p \in Procs : CreateSave(p)
    \/ \E p \in Procs : WebhookDelay(p)
    \/ \E p \in Procs : WebhookDelayRaises(p)
    \/ \E p \in Procs : CreateDelay(p)
    \/ \E p \in Procs : CreateDelayRaises(p)
    \/ \E p \in Procs : CreateCommit(p)
    \/ \E p \in Procs : TaskDeliver(p)
    \/ \E p \in Procs : TaskFound(p)
    \/ \E p \in Procs : TaskNotFound(p)
    \/ \E p \in Procs : TaskRetry(p)
    \/ \E p \in Procs : TaskRetryReraises(p)
    \/ \E p \in Procs : TaskMarkGet(p)
    \/ \E p \in Procs : TaskMarkSave(p)
    \/ \E p \in Procs : PMBegin(p)
    \/ \E p \in Procs : PMBeginRaises(p)
    \/ \E p \in Procs : GetOrCreateGet(p)
    \/ \E p \in Procs : GetOrCreateCreate(p)
    \/ \E p \in Procs : UpdateSave(p)
    \/ \E p \in Procs : DispatchRaises(p)
    \/ \E p \in Procs : PMSuccess(p)
    \/ \E p \in Procs : PMFail(p)

IngestSpec == IngestInit /\ [][IngestNext]_vars

\* The broker delivers every pending task and a worker or a request that has
\* begun runs on; nothing obliges a client to send a message.
IngestFairSpec == IngestSpec /\ \A p \in Procs : WF_vars(IngestRun(p))

\* ------------------------------------------------------------- housekeeping
\* The days pass.
Tick ==
    /\ now + TickDays <= MaxDay
    /\ now' = now + TickDays
    /\ UNCHANGED deleted_count
    /\ UNCHANGED << pipelineVars, workflowVars, alertVars, ldtVars, decoderVars,
                    historyVars >>

\* A row with its created_at column (auto_now_add: the day of the INSERT).
Stamped(m, t) ==
    [f \in DOMAIN m \cup {"created_at"} |->
        IF f = "created_at" THEN t ELSE m[f]]

Stored == msg # NoInst
AllIdle == \A q \in Procs : pc[q] = "idle"

\* A cleanup that takes the old messages whatever their status.
OldMessageAnyStatus(m, today) == m.created_at < today - MessageRetentionDays

\* cleanup_old_ldt_messages, lines 194-202: the filter of the queryset,
\* created_at before the cutoff and status PROCESSED or REJECTED.
OldMessage(m, today) ==
    /\ m.created_at < today - MessageRetentionDays
    /\ m.status \in {PROCESSED, REJECTED}

\* cleanup_old_ldt_messages: the rows of the filter are deleted and their
\* number is returned.
CleanupOldLdtMessages ==
    /\ AllIdle
    /\ lock = 0
    /\ IF Stored /\ OldMessage(msg, now)
       THEN /\ msg' = NoInst
            /\ deleted_count' = [task |-> "cleanup_old_ldt_messages", count |-> 1]
       ELSE /\ UNCHANGED msg
            /\ deleted_count' = [task |-> "cleanup_old_ldt_messages", count |-> 0]
    /\ UNCHANGED now
    /\ UNCHANGED << results, queue, lock, pc, op, inst, idx, tr, exc, retries >>
    /\ UNCHANGED << workflowVars, alertVars, ldtVars, decoderVars,
                    historyVars >>

\* LDTMessageViewSet is a ModelViewSet: DELETE on a message runs destroy,
\* get_object() first.
DestroyGet(p) ==
    /\ AllIdle
    /\ Stored
    /\ pc' = [pc EXCEPT ![p] = "destroy"]
    /\ op' = [op EXCEPT ![p] = "destroy"]
    /\ inst' = [inst EXCEPT ![p] = msg]
    /\ UNCHANGED << msg, results, queue, lock, idx, tr, exc, retries >>
    /\ UNCHANGED besidePipeline

\* destroy: perform_destroy(instance) is instance.delete().
DestroyDelete(p) ==
    /\ pc[p] = "destroy"
    /\ lock = 0
    /\ msg' = NoInst
    /\ Rest(p)
    /\ UNCHANGED << results, queue, lock >>
    /\ UNCHANGED besidePipeline

\* The message of the pipeline, received on day 0, with the pipeline's
\* operations run one at a time on it while it is stored; a task delivered
\* after the message is gone finds no row.
RetainInit ==
    /\ \E type \in MessageType, raw \in RawMessages :
          /\ type # RESULT => raw = RawDistinct
          /\ msg = Stamped(NewMessage(type, raw), 0)
    /\ results = {}
    /\ queue = [r \in 0 .. TaskMaxRetries |-> IF r = 0 THEN 1 ELSE 0]
    /\ lock = 0
    /\ pc = [p \in Procs |-> "idle"]
    /\ op = [p \in Procs |-> "none"]
    /\ inst = [p \in Procs |-> NoInst]
    /\ idx = [p \in Procs |-> 0]
    /\ tr = [p \in Procs |-> NoResult]
    /\ exc = [p \in Procs |-> NoText]
    /\ retries = [p \in Procs |-> 0]
    /\ WorkflowsAtRest
    /\ AlertsAtRest
    /\ LdtAtRest
    /\ DecoderAtRest
    /\ ClockAtRest
    /\ HistoryAtRest

Processing(p) == Alone(p) /\ Stored /\ Step(p)
Undelivered(p) == Alone(p) /\ ~ Stored /\ TaskDeliver(p)

RetainNext ==
    \/ \E p \in Procs : Processing(p)
    \/ \E p \in Procs : Undelivered(p)
    \/ \E p \in Procs : TaskNotFound(p)
    \/ AllIdle /\ Stored /\ ExternalDecision
    \/ \E p \in Procs : DestroyGet(p)
    \/ \E p \in Procs : DestroyDelete(p)
    \/ CleanupOldLdtMessages
    \/ Tick

RetainSpec == RetainInit /\ [][RetainNext]_vars

\* A ResultAuditLog row of a result: action and performed_at (auto_now_add).
AuditEntry(r, action, t) ==
    [result |-> r, action |-> action, performed_at |-> t]

\* on_delete=models.CASCADE of ResultAuditLog.result: the rows that are left
\* when result r is deleted.
Cascade(log, r) == SelectSeq(log, LAMBDA e : e.result # r)

\* cleanup_old_audit_logs, lines 219-223: the rows the filter does not take.
KeptAuditLogs(log, today) ==
    SelectSeq(log, LAMBDA e : ~ (e.performed_at < today - AuditRetentionDays))

\* TestResultViewSet.perform_update: the result is saved and an UPDATED entry
\* is written, in one transaction.
PerformUpdate ==
    /\ Len(auditlog) < MaxAudit
    /\ \E r \in DOMAIN tres, v \in {VPENDING, VALIDATED} :
          /\ tres' = [tres EXCEPT ![r].validation_status = v]
          /\ auditlog' = Append(auditlog, AuditEntry(r, "UPDATED", now))
    /\ UNCHANGED << workflows, alerts, wqueue, wlock, wx >>
    /\ UNCHANGED << users, outbox, aqueue, ax >>
    /\ UNCHANGED << pipelineVars, ldtVars, decoderVars, clockVars, historyVars >>

\* TestResultViewSet.perform_destroy: a DELETED entry is written for the
\* result, then instance.delete() deletes the result and, by the cascade,
\* every entry of it.
PerformDestroy ==
    /\ \E r \in DOMAIN tres :
          /\ auditlog' =
                Cascade(Append(auditlog, AuditEntry(r, "DELETED", now)), r)
          /\ tres' = [x \in DOMAIN tres \ {r} |-> tres[x]]
    /\ UNCHANGED << workflows, alerts, wqueue, wlock, wx >>
    /\ UNCHANGED << users, outbox, aqueue, ax >>
    /\ UNCHANGED << pipelineVars, ldtVars, decoderVars, clockVars, historyVars >>

\* cleanup_old_audit_logs: the rows of the filter are deleted and their
\* number is returned.
CleanupOldAuditLogs ==
    /\ auditlog' = KeptAuditLogs(auditlog, now)
    /\ deleted_count' =
          [task |-> "cleanup_old_audit_logs",
           count |-> Len(auditlog) - Len(KeptAuditLogs(auditlog, now))]
    /\ UNCHANGED now
    /\ UNCHANGED << users, outbox, aqueue, ax >>
    /\ UNCHANGED << pipelineVars, workflowVars, ldtVars, decoderVars,
                    historyVars >>

\* One result, created through the API on day 0, with its CREATED entry.
AuditInit ==
    /\ \E row \in EnteredResults({VPENDING}) : tres = [r \in {"R1"} |-> row]
    /\ auditlog = << AuditEntry("R1", "CREATED", 0) >>
    /\ users = << >>
    /\ outbox = << >>
    /\ aqueue = [r \in 0 .. AlertTaskMaxRetries |-> 0]
    /\ ax = [p \in Procs |-> AxIdle]
    /\ workflows = << >>
    /\ alerts = << >>
    /\ wqueue = [r \in 0 .. WfTaskMaxRetries |-> 0]
    /\ wlock = 0
    /\ wx = [p \in Procs |-> WxIdle]
    /\ PipelineAtRest
    /\ LdtAtRest
    /\ DecoderAtRest
    /\ ClockAtRest
    /\ HistoryAtRest

AuditNext ==
    \/ PerformUpdate
    \/ PerformDestroy
    \/ CleanupOldAuditLogs
    \/ Tick

AuditSpec == AuditInit /\ [][AuditNext]_vars

\* ---------------------------------------------------------- properties
\* The executor is past the first save() of process_message: in the OBX
\* loop or in the except branch.
Attempting(p) == pc[p] \in {"pm_dispatch", "pm_create", "pm_update", "pm_fail"}

Quiescent == QueueLen = 0 /\ \A p \in Procs : pc[p] = "idle"

\* C1: at no time are two executions of process_message of the same message
\* under way, whichever of the task, reprocess and bulk_process started them.
ProcessMessageExclusive ==
    \A p, q \in Procs : (Attempting(p) /\ Attempting(q)) => p = q

\* C2: the stored status of a message becomes PROCESSING only from RECEIVED,
\* whichever operation writes it.
ProcessingOnlyFromReceived ==
    [][(msg'.status = PROCESSING /\ msg.status # PROCESSING)
          => msg.status = RECEIVED]_vars

TaskFailureRetried ==
    [][\A p \in Procs :
          (op[p] = "task" /\ pc[p] = "pm_fail" /\ pc'[p] # "pm_fail")
             => IF retries[p] < TaskMaxRetries
                THEN queue' = Enqueue(queue, retries[p] + 1)
                ELSE /\ msg'.status = ERROR
                     /\ msg'.error_message = MaxRetriesText]_vars

\* C5: an attempt that succeeds, the one after a failed attempt and a retry
\* included, ends with the message stored in PROCESSED.
SuccessReachesProcessed ==
    [][\A p \in Procs :
          (pc[p] = "pm_dispatch" /\ pc'[p] = "idle")
             => msg'.status = PROCESSED]_vars

\* The message failed, was retried, and its next attempt succeeded.
ProcessedAfterRetry ==
    /\ msg.status = PROCESSED
    /\ msg.retry_count > 0
    /\ msg.error_message = NoText

RetryActionContract ==
    /\ [][\A p \in Procs :
             (pc[p] = "retry" /\ pc'[p] = "idle")
                => IF inst[p].status = ERROR
                      /\ inst[p].retry_count < inst[p].max_retries
                   THEN /\ msg' = [inst[p] EXCEPT
                                      !.status = RECEIVED,
                                      !.retry_count = inst[p].retry_count + 1,
                                      !.error_message = NoText]
                        /\ queue' = Enqueue(queue, 0)
                   ELSE msg' = msg /\ queue' = queue]_vars
    /\ [](msg.retry_count <= msg.max_retries)

\* A retry has been accepted: the message is back in RECEIVED with its
\* last permitted retry counted and one task pending.
RetryAccepted ==
    /\ msg.status = RECEIVED
    /\ msg.retry_count = msg.max_retries
    /\ msg.error_message = NoText
    /\ QueueLen = 1

\* The fields of a stored result that the message determines.
RecordFields(r) ==
    [result_id |-> r.result_id,
     ldt_message_id |-> r.ldt_message_id,
     ldt_obx_sequence |-> r.ldt_obx_sequence,
     result_value |-> r.result_value,
     result_unit |-> r.result_unit,
     ldt_raw_data |-> r.ldt_raw_data]

\* The OBX segments of message m with set-id number s, in order of
\* appearance.
ObxWithSetId(m, s) == SelectSeq(DispatchObx(m), LAMBDA o : ToInt(o.set_id) = s)

SetIds(m) ==
    { ToInt(DispatchObx(m)[i].set_id) : i \in 1 .. Len(DispatchObx(m)) }

\* The records the first successful processing of m leaves: one per set-id,
\* created from the first OBX with that set-id and updated from each later
\* one.
FirstProcessing(m) ==
    { LET first == ObxWithSetId(m, s)[1]
          last == ObxWithSetId(m, s)[Len(ObxWithSetId(m, s))]
      IN  [result_id |-> ResultId(m.message_id, first.set_id),
           ldt_message_id |-> m.message_id,
           ldt_obx_sequence |-> s,
           result_value |-> last.observation_value,
           result_unit |-> first.units,
           ldt_raw_data |-> last] : s \in SetIds(m) }

\* The result table holds the records of the first processing of m, each
\* once.
AsFirstProcessed(m) ==
    /\ { RecordFields(r) : r \in results } = FirstProcessing(m)
    /\ Cardinality(results) = Cardinality(FirstProcessing(m))

\* The executor has run process_message over every OBX of its message.
PassComplete(p) ==
    pc[p] = "pm_dispatch" /\ idx[p] > Len(DispatchObx(inst[p]))

\* C8: with the operations run one after another, every complete pass of
\* process_message over the unchanged message, and every state in which the
\* message is PROCESSED, has the result table as the first successful
\* processing left it: the same records, result ids and field values, and no
\* second record for a set-id.
ReprocessingIdempotent ==
    /\ msg.status = PROCESSED => AsFirstProcessed(msg)
    /\ \A p \in Procs : PassComplete(p) => AsFirstProcessed(inst[p])

\* A reprocess of an already processed RESULT message has completed its pass.
ReprocessedPass ==
    \E p \in Procs :
       /\ op[p] = "view"
       /\ PassComplete(p)
       /\ inst[p].processed_at
       /\ inst[p].message_type = RESULT
       /\ results # {}

\* C9: in every reachable state, interleaved attempts included, no two
\* stored results have the same ldt_message_id and ldt_obx_sequence.
OneRecordPerObx ==
    \A r1, r2 \in results :
       (/\ r1.ldt_message_id = r2.ldt_message_id
        /\ r1.ldt_obx_sequence = r2.ldt_obx_sequence) => r1 = r2

\* Two attempts raced on the same OBX: one found no record and is about to
\* insert, and the record has been inserted by another meanwhile.
CreateRaceLost ==
    \E p \in Procs :
       /\ pc[p] = "pm_create"
       /\ Lookup(results, inst[p].message_id,
                 DispatchObx(inst[p])[idx[p]].set_id) # {}

\* C10: when the dispatch finds a record for the OBX, the record it saves
\* carries the value, the unit and the raw payload of that OBX.
UpdateTakesObxFields ==
    [][\A p \in Procs :
          (pc[p] = "pm_update" /\ pc'[p] = "pm_dispatch")
             => \E r \in results' :
                   /\ r.pk = tr[p].pk
                   /\ r.result_value = DispatchObx(inst[p])[idx[p]].observation_value
                   /\ r.result_unit = DispatchObx(inst[p])[idx[p]].units
                   /\ r.ldt_raw_data = DispatchObx(inst[p])[idx[p]]]_vars


\* C11. Every message whose stored status is PROCESSED has processed_at and
\* processing_duration set, and every step that stores PROCESSED on a message
\* that was not PROCESSED stores both stamps with it.
ProcessedIsStamped ==
    /\ [](msg.status = PROCESSED =>
            (msg.processed_at /\ msg.processing_duration))
    /\ [][(msg.status # PROCESSED /\ msg'.status = PROCESSED) =>
            (msg'.processed_at /\ msg'.processing_duration)]_vars

\* C11 witness: a success branch has just stored PROCESSED with both stamps
\* on a message that had none when it was received.
ProcessedStamped ==
    /\ msg.status = PROCESSED
    /\ msg.processed_at
    /\ msg.processing_duration
    /\ msg.retry_count = 0
    /\ results # {}
    /\ Quiescent


\* C12. With the task of one message delivered more than once, decode and
\* dispatch run at most once for each time the message is in RECEIVED: a
\* delivery enters process_message only from a stored RECEIVED and with the
\* row lock, the stored row does not change while it holds the lock, and
\* when it leaves decode and dispatch the stored status is no longer
\* RECEIVED.  Every delivery that finds another status ends at once and
\* leaves the message, the ResultRecords and the queue as they were.
DeliveredOncePerReceived ==
    [][\A p \in Procs :
          /\ (pc[p] = "t_lock" /\ pc'[p] # "t_lock" /\ msg.status # RECEIVED)
                => (/\ pc'[p] = "idle"
                    /\ msg' = msg
                    /\ results' = results
                    /\ queue' = queue)
          /\ (pc[p] = "t_lock" /\ pc'[p] = "pm_start")
                => (msg.status = RECEIVED /\ lock' = p)
          /\ (op[p] = "task" /\ pc[p] = "pm_start" /\ pc'[p] = "pm_dispatch")
                => (lock = p /\ msg.status = RECEIVED)
          /\ (lock = p /\ lock' = p) => msg' = msg
          /\ (lock = p /\ lock' # p /\ pc[p] \in {"pm_dispatch", "pm_fail"})
                => msg'.status # RECEIVED]_vars

\* C12 witness: one delivery has run decode and dispatch and stored its
\* outcome, and the other delivery of the same task has the row lock free
\* before it and finds the message no longer in RECEIVED.
SecondDeliveryRefused ==
    /\ QueueLen = 0
    /\ msg.status \in {PROCESSED, ERROR}
    /\ msg.retry_count = 0
    /\ lock = 0
    /\ \E p \in Procs :
          /\ pc[p] = "t_lock"
          /\ \A q \in Procs \ {p} : pc[q] = "idle"


\* The executor is inside execute_workflow.
InExecuteWorkflow(x) == x.pc \in {"ew_start", "ew_steps", "ew_fail"}

\* C13. Every execution of execute_workflow ends by returning to its caller,
\* with the workflow stored either as COMPLETED with completed_at stamped or
\* as FAILED with the text of the error and completed_at unset; it never
\* leaves by an exception.
ExecuteWorkflowNeverRaises ==
    [][\A p \in Procs :
          (InExecuteWorkflow(wx[p]) /\ ~ InExecuteWorkflow(wx'[p]))
             => /\ wx'[p].pc = "idle"
                /\ LET w == workflows'[wx[p].wid]
                   IN  \/ w.status = COMPLETED /\ w.completed_at
                       \/ /\ w.status = FAILED
                          /\ w.error_message # NoText
                          /\ ~ w.completed_at]_vars

\* C14. A workflow stored as COMPLETED or FAILED keeps that status, and no
\* executor runs a step of it.
TerminalWorkflowStays ==
    [][/\ \A wid \in DOMAIN workflows :
             workflows[wid].status \in {COMPLETED, FAILED}
                => workflows'[wid].status = workflows[wid].status
       /\ \A p \in Procs :
             (wx[p].pc = "ew_steps" /\ wx'[p].pc = "ew_steps"
                 /\ wx'[p].todo # wx[p].todo)
                => workflows[wx[p].wid].status \notin {COMPLETED, FAILED}]_vars


\* Executor p completes the workflow of the given type in this step.
Completes(p, type) ==
    /\ wx[p].pc = "ew_steps"
    /\ wx'[p].pc = "idle"
    /\ wx[p].inst.workflow_type = type
    /\ workflows'[wx[p].wid].status = COMPLETED

\* C15. When an AutoValidation workflow completes, each result it refers to
\* is AUTO_VALIDATED exactly when it is neither abnormal nor critical and
\* REQUIRES_REVIEW otherwise; no critical result is AUTO_VALIDATED.
AutoValidationClassifies ==
    [][\A p \in Procs :
          Completes(p, AUTO_VALIDATION)
             => \A r \in wx[p].inst.results :
                   tres'[r].validation_status =
                      IF ~ is_abnormal(tres'[r]) /\ ~ is_critical(tres'[r])
                      THEN AUTO_VALIDATED ELSE REQUIRES_REVIEW]_vars

\* C16. Entering a result creates a CriticalValueAlert workflow exactly when
\* the result is critical and an AutoValidation workflow exactly when its
\* validation is pending, both when both hold.
TriggerCreatesBoth ==
    [][\A r \in ResultIds :
          (r \notin DOMAIN tres /\ r \in DOMAIN tres')
             => /\ is_critical(tres'[r])
                      <=> CriticalId(r) \in DOMAIN workflows'
                /\ tres'[r].validation_status # VALIDATED
                      <=> ValidationId(r) \in DOMAIN workflows']_vars

\* The number of alerts handed to the notifier for result r.
AlertsFor(sent, r) == Len(SelectSeq(sent, LAMBDA a : a = r))

\* C17. When a CriticalValueAlert workflow completes, one alert has been
\* sent for each critical result it refers to and none for the others.
OneAlertPerCriticalResult ==
    [][\A p \in Procs :
          Completes(p, CRITICAL_VALUE_ALERT)
             => \A r \in wx[p].inst.results :
                   AlertsFor(alerts', r) =
                      IF is_critical(tres'[r]) THEN 1 ELSE 0]_vars


\* The send_mail calls of one run of the alert task to user u.
SendsTo(box, u, run) ==
    Len(SelectSeq(box, LAMBDA m : m.to = u /\ m.run = run))

LastOf(tag, n) ==
    LET at == {k \in 1 .. n : lines[k].record_type = tag}
    IN  IF at = {} THEN 0 ELSE CHOOSE k \in at : \A j \in at : j <= k

OpenAt(opening, closing, n) ==
    LET k == LastOf(opening, n)
    IN  IF k = 0 \/ (\E j \in (k + 1) .. n : lines[j].record_type = closing)
        THEN None
        ELSE Some(lines[k].id)

OpenPatient(n) == OpenAt("01", "06", n)
OpenOrder(n) == OpenAt("02", "05", n)

Range(list) == {list[k] : k \in DOMAIN list}

Parsing == lpc \in {"loop", "returned"}

\* C19: while parse_ldt_content runs and when it has returned, every Order
\* line taken so far has one order record, with the id of the most recent
\* Patient line before it unless a PatientEnd line lies between (then null);
\* every Result and Comment line has one record with that patient id and the
\* id of the most recent Order line before it unless an OrderEnd line lies
\* between (then null); and the two cursors are the patient and the order
\* open after the lines taken, so that OrderEnd clears the order cursor only,
\* PatientEnd the patient cursor only, and FileEnd neither.
CursorsAssignIds ==
    Parsing =>
        /\ \A k \in 1 .. line_num :
              /\ lines[k].record_type = "02" =>
                    \E o \in Range(parsed_data.orders) :
                       /\ o.id = lines[k].id
                       /\ o.patient_id = OpenPatient(k - 1)
              /\ lines[k].record_type = "03" =>
                    \E r \in Range(parsed_data.results) :
                       /\ r.id = lines[k].id
                       /\ r.patient_id = OpenPatient(k - 1)
                       /\ r.order_id = OpenOrder(k - 1)
              /\ lines[k].record_type = "04" =>
                    \E c \in Range(parsed_data.comments) :
                       /\ c.id = lines[k].id
                       /\ c.patient_id = OpenPatient(k - 1)
                       /\ c.order_id = OpenOrder(k - 1)
        /\ Len(parsed_data.orders) = Cardinality({k \in 1 .. line_num : lines[k].record_type = "02"})
        /\ Len(parsed_data.results) = Cardinality({k \in 1 .. line_num : lines[k].record_type = "03"})
        /\ Len(parsed_data.comments) = Cardinality({k \in 1 .. line_num : lines[k].record_type = "04"})
        /\ CursorId(current_patient) = OpenPatient(line_num)
        /\ CursorId(current_order) = OpenOrder(line_num)

\* C19 witness: a returned parse in which an order was closed by an OrderEnd
\* and a later result has the patient id and no order id.
ResultAfterOrderEnd ==
    /\ lpc = "returned"
    /\ \E o \in Range(parsed_data.orders) : o.end_time # None /\ o.patient_id # None
    /\ \E r \in Range(parsed_data.results) :
          r.patient_id # None /\ r.order_id = None

\* The lines of the content that are not blank, by their number in it.
NonBlank == {k \in DOMAIN content : ~ IsBlank(content[k])}

ValidRecordTypes == {"01", "02", "03", "04"}

\* The most recent line of the content before line k with the record type.
LastBefore(tag, k) ==
    LET at == {j \in 1 .. (k - 1) : content[j].record_type = tag}
    IN  IF at = {} THEN None ELSE Some(CHOOSE j \in at : \A h \in at : h <= j)

\* C20: when parse_ldt_content has returned for a content whose non-blank
\* lines are N-1 Patient, Order, Result or Comment lines and one line with
\* a record type outside 01..07, the parsed data hold N-1 records, one per
\* valid line, with the ids the cursors give them as if the bad line were
\* absent, and the errors are exactly one, naming the number of the bad
\* line in the content.
OneBadLineOneError ==
    \A b \in NonBlank :
        ( /\ lpc = "returned"
          /\ content[b].record_type \notin RECORD_TYPES
          /\ \A k \in NonBlank \ {b} : content[k].record_type \in ValidRecordTypes )
        =>
        /\ Len(parsed_data.patients) + Len(parsed_data.orders)
             + Len(parsed_data.results) + Len(parsed_data.comments)
             = Cardinality(NonBlank) - 1
        /\ \A k \in NonBlank \ {b} :
              /\ content[k].record_type = "01" =>
                    \E r \in Range(parsed_data.patients) : r.id = k
              /\ content[k].record_type = "02" =>
                    \E r \in Range(parsed_data.orders) :
                       r.id = k /\ r.patient_id = LastBefore("01", k)
              /\ content[k].record_type = "03" =>
                    \E r \in Range(parsed_data.results) :
                       /\ r.id = k
                       /\ r.patient_id = LastBefore("01", k)
                       /\ r.order_id = LastBefore("02", k)
              /\ content[k].record_type = "04" =>
                    \E r \in Range(parsed_data.comments) :
                       /\ r.id = k
                       /\ r.patient_id = LastBefore("01", k)
                       /\ r.order_id = LastBefore("02", k)
        /\ Len(errors) = 1
        /\ errors[1].line = b


\* ----------------------------------------------------- validate_ldt_file
\* The validation errors of one kind that name the record.
ErrorsFor(kind, id) ==
    Cardinality({k \in DOMAIN validation_errors :
                    validation_errors[k] = ValidationError(kind, id)})

\* The number in lines of the line a record was read from.
LineOf(r) == CHOOSE k \in DOMAIN lines : lines[k].id = r.id

ValidDDMMYYYY(f) ==
    /\ Len(f) = 8
    /\ AllDigits(f)
    /\ IntOf(SubSeq(f, 5, 8)) >= 1
    /\ IntOf(SubSeq(f, 3, 4)) \in 1 .. 12
    /\ IntOf(SubSeq(f, 1, 2)) >= 1
    /\ IntOf(SubSeq(f, 1, 2)) <= days_in_month(IntOf(SubSeq(f, 5, 8)), IntOf(SubSeq(f, 3, 4)))

\* The date of a field DDMMYYYY written YYYY-MM-DD.
IsoOf(f) ==
    SubSeq(f, 5, 8) \o << "-" >> \o SubSeq(f, 3, 4) \o << "-" >> \o SubSeq(f, 1, 2)

\* C22: _parse_date returns None for the field 00000000 and for every field
\* that is not a valid DDMMYYYY date, and for a valid DDMMYYYY date it
\* returns that date written YYYY-MM-DD.
ParseDateDecodesDDMMYYYY ==
    HasReturned("_parse_date") =>
        IF ValidDDMMYYYY(decoder.arg)
        THEN Some(IsoOf(decoder.arg)) = decoder.out
        ELSE decoder.out = None


\* ------------------------------------------------------------ _parse_time
\* A field of six digits HHMMSS that is a time of the clock.
ValidHHMMSS(f) ==
    /\ Len(f) = 6
    /\ AllDigits(f)
    /\ IntOf(SubSeq(f, 1, 2)) <= 23
    /\ IntOf(SubSeq(f, 3, 4)) <= 59
    /\ IntOf(SubSeq(f, 5, 6)) <= 59

\* C23: for every 6-character field that is a valid HHMMSS time _parse_time
\* returns it written HH:MM:SS, and it returns None only for a field that
\* is no such time.
ParseTimeDecodesHHMMSS ==
    HasReturned("_parse_time") =>
        /\ ValidHHMMSS(decoder.arg) =>
              Some(SubSeq(decoder.arg, 1, 2) \o << ":" >>
                      \o SubSeq(decoder.arg, 3, 4) \o << ":" >>
                      \o SubSeq(decoder.arg, 5, 6)) = decoder.out
        /\ decoder.out = None => ~ ValidHHMMSS(decoder.arg)


\* -------------------------------------------------- _parse_patient_record
Iso19800101 == << "1", "9", "8", "0", "-", "0", "1", "-", "0", "1" >>

TextFields ==
    [_parse_patient_record |->
        {"id", "last_name", "first_name", "gender", "insurance_number",
         "insurance_type"},
     _parse_order_record |-> {"id", "ordering_physician", "laboratory"},
     _parse_result_record |->
        {"id", "test_code", "test_name", "result_value", "unit",
         "reference_range", "abnormal_flag"},
     _parse_comment_record |-> {"id", "comment_text"}]

\* C25: no text field of a decoded patient, order, result or comment record
\* begins or ends with a whitespace character.
DecodedFieldsStripped ==
    (decoder.pc = "returned" /\ decoder.fn \in DOMAIN TextFields) =>
        \A f \in TextFields[decoder.fn] :
            LET v == decoder.out[f]
            IN  v = << >> \/ (v[1] # " " /\ v[Len(v)] # " ")


\* ------------------------------------------------------ _parse_obx_segment
\* The position of each named field in an OBX line.
ObxPosition ==
    [set_id |-> 1, value_type |-> 2, observation_id |-> 3, sub_id |-> 4,
     observation_value |-> 5, units |-> 6, reference_range |-> 7,
     abnormal_flags |-> 8, probability |-> 9, nature_of_abnormal_test |-> 10,
     observation_result_status |-> 11,
     effective_date_of_reference_range |-> 12,
     user_defined_access_checks |-> 13, observation_datetime |-> 14,
     producer_id |-> 15, responsible_observer |-> 16]

\* C26: _parse_obx_segment returns, for each named field, the part of the
\* '|'-split line at the field's position, and the empty string when the
\* line has no part there; the example line decodes to set-id 1, value-type
\* NM, observation-id GLU^GLU, value 120, units mg/dL, reference-range
\* 70-110 and abnormal-flag H.
ObxFieldsByPosition ==
    HasReturned("_parse_obx_segment") =>
        /\ DOMAIN decoder.out = DOMAIN ObxPosition
        /\ \A f \in DOMAIN ObxPosition :
              LET parts == SplitOn(decoder.arg, "|")
              IN  IF ObxPosition[f] < Len(parts)
                  THEN parts[ObxPosition[f] + 1] = decoder.out[f]
                  ELSE << >> = decoder.out[f]
        /\ decoder.arg = ExampleObx =>
              /\ << "1" >> = decoder.out.set_id
              /\ << "N", "M" >> = decoder.out.value_type
              /\ << "G", "L", "U", "^", "G", "L", "U" >> = decoder.out.observation_id
              /\ << "1", "2", "0" >> = decoder.out.observation_value
              /\ << "m", "g", "/", "d", "L" >> = decoder.out.units
              /\ << "7", "0", "-", "1", "1", "0" >> = decoder.out.reference_range
              /\ << "H" >> = decoder.out.abnormal_flags

\* C26 witness: the example line has been decoded; its last part is the
\* twelfth, and the fields from position 13 on are empty.
ExampleObxDecoded ==
    /\ HasReturned("_parse_obx_segment")
    /\ decoder.arg = ExampleObx
    /\ << "F" >> = decoder.out.probability
    /\ << >> = decoder.out.user_defined_access_checks
    /\ << >> = decoder.out.responsible_observer

\* --------------------------------------------- _extract_message_structure
\* The segments of a raw message: its non-blank lines, on whose first part
\* _parse_ldt_message dispatches.
SegmentsOf(raw) ==
    LET ls == SplitOn(raw, "\n")
    IN  {k \in DOMAIN ls : StrStrip(ls[k]) # << >>}

HasSegment(raw, tag) ==
    \E k \in SegmentsOf(raw) : SplitOn(SplitOn(raw, "\n")[k], "|")[1] = tag

\* C27: in the structure _extract_message_structure returns,
\* has_patient_data, has_order_data and has_result_data are true exactly
\* when the message has a PID, an ORC or an OBX segment, and total_segments
\* is the number of segments of the message.
StructureCountsSegments ==
    HasReturned("_extract_message_structure") =>
        /\ decoder.out.has_patient_data <=> HasSegment(decoder.arg, << "P", "I", "D" >>)
        /\ decoder.out.has_order_data <=> HasSegment(decoder.arg, << "O", "R", "C" >>)
        /\ decoder.out.has_result_data <=> HasSegment(decoder.arg, << "O", "B", "X" >>)
        /\ decoder.out.total_segments = Cardinality(SegmentsOf(decoder.arg))

\* ------------------------------------------------------ ldt_webhook, create
\* C28: under fair delivery and execution of the tasks, a message stored in
\* RECEIVED by an ingestion entry point eventually is in PROCESSED or ERROR;
\* it does not stay in RECEIVED for ever with no task pending for it.
ReceivedLeadsToSettled ==
    (msg.status = RECEIVED) ~> (msg.status \in {PROCESSED, ERROR})

AuditLogAppendOnly ==
    [][\A k \in 1 .. Len(auditlog) :
          k <= Len(auditlog') /\ auditlog'[k] = auditlog[k]]_vars

\* ------------------------------------------------- the workflow engine, again
\* The steps of its workflow that executor x has executed so far.
StepsDone(x) ==
    IF x.pc \in {"ew_steps", "ew_fail"} /\ HasSteps(x.inst)
    THEN Cardinality(x.inst.results) - Len(x.todo)
    ELSE 0

\* C34: the steps of a workflow are executed at most once; no two executors
\* have both executed steps of the same workflow, whether they run the execute
\* action or process_result_workflow_task.
WorkflowStepsRunOnce ==
    \A p, q \in Procs :
       (/\ StepsDone(wx[p]) > 0
        /\ StepsDone(wx[q]) > 0
        /\ wx[p].wid = wx[q].wid) => p = q

\* C37: when an AutoValidation workflow ends in FAILED, every result it refers
\* to has the validation status it had before the run, PENDING: the failed run
\* has classified no result.
FailedRunClassifiesNothing ==
    [][\A p \in Procs :
          (/\ wx[p].pc = "ew_fail"
           /\ wx'[p].pc = "idle"
           /\ wx[p].inst.workflow_type = AUTO_VALIDATION)
             => \A r \in wx[p].inst.results :
                   tres'[r].validation_status = VPENDING]_vars

\* ------------------------------------------------------------ ldt_status
\* C38: a stored message in PROCESSED has an empty error text, also when it
\* failed before and was processed again through retry or reprocess, so the
\* status endpoint, which returns the stored status and error text, reports
\* no error for a processed message.
ProcessedHasNoErrorText ==
    msg.status = PROCESSED => msg.error_message = NoText


\* ------------------------------------------------ parse_ldt_content, again
\* The order records of the output that a result or a comment is linked to.
LinkedOrders(r) ==
    {o \in Range(parsed_data.orders) : Some(o.id) = r.order_id}

\* C35: in the output of parse_ldt_content, every result and every comment
\* whose order id is not null has the patient id of the order record it is
\* linked to.
LinkedOrderHasSamePatient ==
    lpc = "returned" =>
        \A r \in Range(parsed_data.results) \cup Range(parsed_data.comments) :
           \A o \in LinkedOrders(r) : o.patient_id = r.patient_id

\* ------------------------------------------------------------ the audit log
\* The ResultAuditLog rows a step adds for result r.
AddedEntries(r) ==
    {k \in DOMAIN auditlog' : k > Len(auditlog) /\ auditlog'[k].result = r}

\* C31: every step that changes the stored validation status of a result
\* adds an audit entry for that result.
StatusChangeIsAudited ==
    [][\A r \in DOMAIN tres :
          tres'[r].validation_status # tres[r].validation_status
             => AddedEntries(r) # {}]_vars

\* ---------------------------------------------------- validate_results_batch
NEGATIVE == "NEGATIVE"
NONREACTIVE == "NONREACTIVE"

\* The filter of lines 241-248.
BatchSelects(row) ==
    /\ row.validation_status = VPENDING
    /\ row.critical_level \in {NORMAL, NEGATIVE, NONREACTIVE}

\* Lines 254-257 on the columns the rows of the model carry.
BatchValidated(row) == [row EXCEPT !.validation_status = AUTO_VALIDATED]

\* The queryset as the loop fetches it, in the order of the ids.
AutoValidationResults ==
    LET ids == SelectSeq(ResultOrder,
                         LAMBDA r : r \in DOMAIN tres /\ BatchSelects(tres[r]))
    IN  [k \in 1 .. Len(ids) |-> [id |-> ids[k], row |-> tres[ids[k]]]]

\* Lines 239-251: the task enters its atomic block and runs the query.
BatchQuery(p) ==
    /\ wx[p].pc = "idle"
    /\ wx' = [wx EXCEPT ![p] = [pc |-> "vb_loop",
                                todo |-> AutoValidationResults,
                                writes |-> << >>,
                                logs |-> << >>,
                                failed |-> {},
                                validated_count |-> 0]]
    /\ UNCHANGED << workflows, tres, alerts, wqueue, wlock >>
    /\ UNCHANGED << pipelineVars, alertVars, ldtVars, decoderVars, clockVars, historyVars >>

\* Lines 252-268: one result of the loop is saved and its VALIDATED entry
\* created; both are writes of the open transaction.
BatchValidate(p) ==
    /\ wx[p].pc = "vb_loop"
    /\ wx[p].todo # << >>
    /\ LET r == Head(wx[p].todo)
       IN  wx' = [wx EXCEPT
                    ![p].todo = Tail(@),
                    ![p].writes = Append(@, [id |-> r.id,
                                             row |-> BatchValidated(r.row)]),
                    ![p].logs = Append(@, AuditEntry(r.id, "VALIDATED", now)),
                    ![p].validated_count = @ + 1]
    /\ UNCHANGED << workflows, tres, alerts, wqueue, wlock >>
    /\ UNCHANGED << pipelineVars, alertVars, ldtVars, decoderVars, clockVars, historyVars >>

\* Lines 270-272: the save of one result raises, the loop goes on.
BatchValidateRaises(p) ==
    /\ wx[p].pc = "vb_loop"
    /\ wx[p].todo # << >>
    /\ wx' = [wx EXCEPT ![p].todo = Tail(@),
                        ![p].failed = @ \cup {Head(wx[p].todo).id}]
    /\ UNCHANGED << workflows, tres, alerts, wqueue, wlock >>
    /\ UNCHANGED << pipelineVars, alertVars, ldtVars, decoderVars, clockVars, historyVars >>

\* Lines 274-275: the loop is over, the atomic block commits what the task
\* wrote and the task returns validated_count.
BatchReturn(p) ==
    /\ wx[p].pc = "vb_loop"
    /\ wx[p].todo = << >>
    /\ tres' = Committed(tres, wx[p].writes)
    /\ auditlog' = auditlog \o wx[p].logs
    /\ WxRest(p)
    /\ UNCHANGED << workflows, alerts, wqueue, wlock >>
    /\ UNCHANGED << users, outbox, aqueue, ax >>
    /\ UNCHANGED << pipelineVars, ldtVars, decoderVars, clockVars, historyVars >>

\* An exception leaves the atomic block, which rolls back.
BatchRaises(p) ==
    /\ wx[p].pc = "vb_loop"
    /\ wx' = [wx EXCEPT ![p] = [pc |-> "vb_fail"]]
    /\ UNCHANGED << workflows, tres, alerts, wqueue, wlock >>
    /\ UNCHANGED << pipelineVars, alertVars, ldtVars, decoderVars, clockVars, historyVars >>

\* Lines 277-279: the task logs the exception and returns 0.
BatchFail(p) ==
    /\ wx[p].pc = "vb_fail"
    /\ WxRest(p)
    /\ UNCHANGED << workflows, tres, alerts, wqueue, wlock >>
    /\ UNCHANGED << pipelineVars, alertVars, ldtVars, decoderVars, clockVars, historyVars >>

\* The results the batch may find: pending or under review, of a level the
\* filter takes or not, with a value inside the range, outside it, or none.
BatchLevels == EnteredLevels \cup {NEGATIVE, NONREACTIVE}
BatchResults ==
    { TestResultRow(l, n, Dec(RangeLow), Dec(RangeHigh), v) :
         l \in BatchLevels, n \in EnteredValues,
         v \in {VPENDING, REQUIRES_REVIEW} }

BatchInit ==
    /\ tres \in [{"R1", "R2"} -> BatchResults]
    /\ workflows = << >>
    /\ alerts = << >>
    /\ wqueue = [r \in 0 .. WfTaskMaxRetries |-> 0]
    /\ wlock = 0
    /\ wx = [p \in Procs |-> WxIdle]
    /\ PipelineAtRest
    /\ AlertsAtRest
    /\ LdtAtRest
    /\ DecoderAtRest
    /\ ClockAtRest
    /\ HistoryAtRest

BatchNext ==
    \/ \E p \in Procs : BatchQuery(p)
    \/ \E p \in Procs : BatchValidate(p)
    \/ \E p \in Procs : BatchValidateRaises(p)
    \/ \E p \in Procs : BatchReturn(p)
    \/ \E p \in Procs : BatchRaises(p)
    \/ \E p \in Procs : BatchFail(p)

BatchSpec == BatchInit /\ [][BatchNext]_vars

\* C40: when validate_results_batch commits, every result that was pending
\* and whose save did not raise is AUTO_VALIDATED exactly when
\* _execute_auto_validation classifies it AUTO_VALIDATED.
BatchAgreesWithWorkflow ==
    [][\A p \in Procs :
          (wx[p].pc = "vb_loop" /\ wx'[p].pc = "idle")
             => \A r \in DOMAIN tres :
                   (tres[r].validation_status = VPENDING
                       /\ r \notin wx[p].failed)
                      => (tres'[r].validation_status = AUTO_VALIDATED
                            <=> AutoValidated(tres[r]).validation_status
                                   = AUTO_VALIDATED)]_vars

\* ------------------------------------- TestResultViewSet.validate/approve/reject
\* request.user of the three actions.
RequestUser == "U1"

\* A TestResult row with the two columns the actions assign besides
\* validation_status.
ReviewedRow(row, vby, aby) ==
    [critical_level |-> row.critical_level,
     numeric_value |-> row.numeric_value,
     reference_range_low |-> row.reference_range_low,
     reference_range_high |-> row.reference_range_high,
     validation_status |-> row.validation_status,
     validated_by |-> vby,
     approved_by |-> aby]

\* self.get_object() of the three actions: no lock is taken, the instance is
\* the row as it is stored at that moment.
Loaded(r, action) == [pc |-> action, rid |-> r, row |-> tres[r]]

\* validate, line 128.
ValidateGet(p) ==
    /\ wx[p].pc = "idle"
    /\ Len(auditlog) < MaxAudit
    /\ \E r \in DOMAIN tres : wx' = [wx EXCEPT ![p] = Loaded(r, "validate")]
    /\ UNCHANGED << workflows, tres, alerts, wqueue, wlock >>
    /\ UNCHANGED << pipelineVars, alertVars, ldtVars, decoderVars, clockVars, historyVars >>

\* approve, line 161.
ApproveGet(p) ==
    /\ wx[p].pc = "idle"
    /\ Len(auditlog) < MaxAudit
    /\ \E r \in DOMAIN tres : wx' = [wx EXCEPT ![p] = Loaded(r, "approve")]
    /\ UNCHANGED << workflows, tres, alerts, wqueue, wlock >>
    /\ UNCHANGED << pipelineVars, alertVars, ldtVars, decoderVars, clockVars, historyVars >>

\* reject, line 194.
RejectGet(p) ==
    /\ wx[p].pc = "idle"
    /\ Len(auditlog) < MaxAudit
    /\ \E r \in DOMAIN tres : wx' = [wx EXCEPT ![p] = Loaded(r, "reject")]
    /\ UNCHANGED << workflows, tres, alerts, wqueue, wlock >>
    /\ UNCHANGED << pipelineVars, alertVars, ldtVars, decoderVars, clockVars, historyVars >>

\* The 400 answer of validate (lines 130-134) and of approve (163-167).
ReviewRefused(p) ==
    /\ \/ wx[p].pc = "validate" /\ wx[p].row.validation_status # VPENDING
       \/ wx[p].pc = "approve" /\ wx[p].row.validation_status # VALIDATED
    /\ WxRest(p)
    /\ UNCHANGED << workflows, tres, alerts, wqueue, wlock >>
    /\ UNCHANGED << pipelineVars, alertVars, ldtVars, decoderVars, clockVars, historyVars >>

\* validate, lines 136-154: the instance is saved with VALIDATED and
\* validated_by, the VALIDATED entry is created and _trigger_workflow runs,
\* all in one transaction.
ValidateSave(p) ==
    /\ wx[p].pc = "validate"
    /\ wx[p].row.validation_status = VPENDING
    /\ \E ok \in BOOLEAN :
          LET r == wx[p].rid
              row == [wx[p].row EXCEPT !.validation_status = VALIDATED,
                                       !.validated_by = Some(RequestUser)]
              ts == TriggeredWorkflow(r, row)
          IN  /\ tres' = [tres EXCEPT ![r] = row]
              /\ IF ts = {}
                 THEN ok /\ UNCHANGED workflows
                 ELSE LET t == CHOOSE x \in ts : TRUE
                          e == TriggerExecuted(t, r, row, ok)
                      IN  workflows' =
                             [x \in DOMAIN workflows \cup {t.id} |->
                                 IF x = t.id THEN e.workflow ELSE workflows[x]]
              /\ auditlog' = Append(auditlog, AuditEntry(r, "VALIDATED", now))
    /\ WxRest(p)
    /\ UNCHANGED << alerts, wqueue, wlock >>
    /\ UNCHANGED << users, outbox, aqueue, ax >>
    /\ UNCHANGED << pipelineVars, ldtVars, decoderVars, clockVars, historyVars >>

\* approve, lines 169-187: approved_by is assigned and the instance saved,
\* the APPROVED entry created, and the alert task queued for a critical
\* result.
ApproveSave(p) ==
    /\ wx[p].pc = "approve"
    /\ wx[p].row.validation_status = VALIDATED
    /\ LET r == wx[p].rid
           row == [wx[p].row EXCEPT !.approved_by = Some(RequestUser)]
       IN  /\ tres' = [tres EXCEPT ![r] = row]
           /\ auditlog' = Append(auditlog, AuditEntry(r, "APPROVED", now))
           /\ aqueue' = IF is_critical(row)
                        THEN [aqueue EXCEPT ![0] = @ + 1] ELSE aqueue
    /\ WxRest(p)
    /\ UNCHANGED << workflows, alerts, wqueue, wlock >>
    /\ UNCHANGED << users, outbox, ax >>
    /\ UNCHANGED << pipelineVars, ldtVars, decoderVars, clockVars, historyVars >>

\* reject, lines 196-209: whatever the status of the instance, it is saved
\* with REJECTED and the REJECTED entry created.
RejectSave(p) ==
    /\ wx[p].pc = "reject"
    /\ LET r == wx[p].rid
           row == [wx[p].row EXCEPT !.validation_status = REJECTED]
       IN  /\ tres' = [tres EXCEPT ![r] = row]
           /\ auditlog' = Append(auditlog, AuditEntry(r, "REJECTED", now))
    /\ WxRest(p)
    /\ UNCHANGED << workflows, alerts, wqueue, wlock >>
    /\ UNCHANGED << users, outbox, aqueue, ax >>
    /\ UNCHANGED << pipelineVars, ldtVars, decoderVars, clockVars, historyVars >>

\* One entered result, pending, that nobody has validated or approved.
ReviewInit ==
    /\ \E row \in EnteredResults({VPENDING}) :
          tres = [r \in {"R1"} |-> ReviewedRow(row, None, None)]
    /\ workflows = << >>
    /\ alerts = << >>
    /\ wqueue = [r \in 0 .. WfTaskMaxRetries |-> 0]
    /\ wlock = 0
    /\ wx = [p \in Procs |-> WxIdle]
    /\ PipelineAtRest
    /\ AlertsAtRest
    /\ LdtAtRest
    /\ DecoderAtRest
    /\ ClockAtRest
    /\ HistoryAtRest

ReviewNext ==
    \/ \E p \in Procs : ValidateGet(p)
    \/ \E p \in Procs : ApproveGet(p)
    \/ \E p \in Procs : RejectGet(p)
    \/ \E p \in Procs : ReviewRefused(p)
    \/ \E p \in Procs : ValidateSave(p)
    \/ \E p \in Procs : ApproveSave(p)
    \/ \E p \in Procs : RejectSave(p)

ReviewSpec == ReviewInit /\ [][ReviewNext]_vars

\* C39: a result that has been approved has validation status VALIDATED.
ApprovedIsValidated ==
    \A r \in DOMAIN tres :
       tres[r].approved_by # None => tres[r].validation_status = VALIDATED

\* The errors the loop records for the lines of one content (lines 85-87):
\* one for each line whose record type is not in RECORD_TYPES.
ContentErrors(c) ==
    LET ls == Split(c)
        bad == SelectSeq([k \in 1 .. Len(ls) |-> k],
                         LAMBDA k : ls[k].record_type \notin RECORD_TYPES
                                       /\ ls[k].record_type # BlankTag)
    IN  [j \in 1 .. Len(bad) |-> LineError(bad[j], ls[bad[j]].record_type)]

\* C36: the errors parse_ldt_content returns are the errors of the lines of
\* the content passed to that call, and no others.
ReturnedErrorsAreOfThisContent ==
    lpc = "returned" => errors = ContentErrors(content)

\* ------------------------------------- parse_ldt_content, called more than once
\* The contents parsed again, and the day after which the clock is not
\* followed further.
MaxReparseLines == 2
MaxParseDay == 60
ReparseTags == {"01", "02", "03", "05", "06"}
ReparseContents ==
    {c \in Contents :
        /\ Len(c) <= MaxReparseLines
        /\ \A k \in DOMAIN c : c[k].record_type \in ReparseTags}

\* The caller keeps the dictionary a call returned, with the content it
\* passed.
KeepResult ==
    /\ lpc = "returned"
    /\ decoder.pc = "ready"
    /\ decoder' = Returned(Called("parse_ldt_content", content), parsed_data)
    /\ UNCHANGED << pipelineVars, workflowVars, alertVars, ldtVars, clockVars, historyVars >>

\* The caller takes up another content for the next call.
NextContent ==
    /\ lpc \in {"ready", "returned"}
    /\ \E c \in ReparseContents \ {content} : content' = c
    /\ lpc' = "ready"
    /\ UNCHANGED << lines, line_num, current_patient, current_order,
                    parsed_data, errors >>
    /\ UNCHANGED << validation_errors, pipelineVars, workflowVars, alertVars,
                    decoderVars, clockVars, historyVars >>

\* Time passes between the calls and during them.
ParseTick == now < MaxParseDay /\ Tick

ReparseInit ==
    /\ content \in ReparseContents
    /\ lines = << >>
    /\ line_num = 0
    /\ current_patient = None
    /\ current_order = None
    /\ parsed_data = EmptyParsedData
    /\ errors = << >>
    /\ lpc = "ready"
    /\ validation_errors = << >>
    /\ PipelineAtRest
    /\ WorkflowsAtRest
    /\ AlertsAtRest
    /\ DecoderAtRest
    /\ ClockAtRest
    /\ HistoryAtRest

ReparseNext ==
    \/ ParseStart
    \/ PatientRecord
    \/ OrderRecord
    \/ ResultRecord
    \/ OrderEnd
    \/ PatientEnd
    \/ ParseReturn
    \/ KeepResult
    \/ NextContent
    \/ ParseTick

ReparseSpec == ReparseInit /\ [][ReparseNext]_vars

\* The records of a returned dictionary without the value of end_time: only
\* whether the record was ended.
WithoutStamp(list) ==
    [k \in 1 .. Len(list) |-> [list[k] EXCEPT !.end_time = (@ # None)]]
WithoutStamps(data) ==
    [data EXCEPT !.patients = WithoutStamp(@), !.orders = WithoutStamp(@)]

\* A call has returned for the content of a result the caller kept.
ParsedAgain ==
    /\ lpc = "returned"
    /\ HasReturned("parse_ldt_content")
    /\ decoder.arg = content

CountedRetrySave(p) ==
    /\ RetryWrite(p)
    /\ IF RetryAllowed(inst[p]) /\ msg.status = ERROR
       THEN /\ reopened <= msg.max_retries
            /\ reopened' = reopened + 1
       ELSE UNCHANGED reopened
    /\ UNCHANGED besideMessage

\* A message whose processing has failed once and that no task is queued for.
FailedInit ==
    /\ \E type \in MessageType, raw \in RawMessages :
          /\ type # RESULT => raw = RawDistinct
          /\ msg = ErrorInstance(NewMessage(type, raw), ExcText)
    /\ results = {}
    /\ queue = [r \in 0 .. TaskMaxRetries |-> 0]
    /\ lock = 0
    /\ pc = [p \in Procs |-> "idle"]
    /\ op = [p \in Procs |-> "none"]
    /\ inst = [p \in Procs |-> NoInst]
    /\ idx = [p \in Procs |-> 0]
    /\ tr = [p \in Procs |-> NoResult]
    /\ exc = [p \in Procs |-> NoText]
    /\ retries = [p \in Procs |-> 0]
    /\ WorkflowsAtRest
    /\ AlertsAtRest
    /\ LdtAtRest
    /\ DecoderAtRest
    /\ ClockAtRest
    /\ HistoryAtRest

\* Retry requests and the task they enqueue, interleaved.
RetryNext ==
    \/ \E p \in Procs : TaskDeliver(p)
    \/ \E p \in Procs : TaskLock(p)
    \/ \E p \in Procs : TaskRetry(p)
    \/ \E p \in Procs : TaskRetryReraises(p)
    \/ \E p \in Procs : TaskMarkGet(p)
    \/ \E p \in Procs : TaskMarkSave(p)
    \/ \E p \in Procs : RetryGet(p)
    \/ \E p \in Procs : CountedRetrySave(p)
    \/ \E p \in Procs : PMBegin(p)
    \/ \E p \in Procs : PMBeginRaises(p)
    \/ \E p \in Procs : GetOrCreateGet(p)
    \/ \E p \in Procs : GetOrCreateCreate(p)
    \/ \E p \in Procs : UpdateSave(p)
    \/ \E p \in Procs : DispatchRaises(p)
    \/ \E p \in Procs : PMSuccess(p)
    \/ \E p \in Procs : PMFail(p)

RetrySpec == FailedInit /\ [][RetryNext]_vars

\* C33: the message moves from ERROR back to RECEIVED at most max_retries
\* times in total.
ReopenedWithinMaxRetries ==
    reopened <= msg.max_retries
====
